---- MODULE Spec2Model ----
(***************************************************************************)
(* Lifecycle controller (XrayService) and state tracker (InternalService)  *)
(* of remnawave-node-go, as a state machine.  Each caller is a process     *)
(* that issues Start, Restart and Stop calls; a call advances through the  *)
(* points of its handler at which other callers can observe it.            *)
(***************************************************************************)
EXTENDS Integers, Sequences, FiniteSets, TLC

(* ------------------------------ bounds -------------------------------- *)
NumProcs == 2
MaxManifestLen == 2
NumVisionCallers == 2
NumHandlers == 2
NumGetters == 3

Procs == 1..NumProcs
Tags == {"A", "B"}
Emails == {"u1"}
HProcs == 1..NumHandlers
GProcs == 1..NumGetters
(* identity keys of the user requests (vlessUuid, hashUuid) *)
Keys == {"u1", "u2"}

(* ----------------------- requests and their parts --------------------- *)
maxRetries == 10

NoConfig == [kind |-> "none", inbounds |-> <<>>, injected |-> FALSE]
BadConfig == [kind |-> "bad", inbounds |-> <<>>, injected |-> FALSE]
OkConfig(S) == [kind |-> "ok", inbounds |-> [t \in S |-> Emails], injected |-> FALSE]
Configs == {OkConfig({"A"}), OkConfig({"A", "B"}), BadConfig}

Item(t, h) == [tag |-> t, hash |-> h]
Hashes(e, s) == [present |-> TRUE, emptyConfig |-> e, inbounds |-> s]
NoHashes == [present |-> FALSE, emptyConfig |-> "", inbounds |-> <<>>]
(* the manifests that requests carry: one per way a manifest relates to a   *)
(* config and to the manifest before it                                     *)
ReqHashes ==
    {NoHashes,
     Hashes("e1", <<Item("A", "h1")>>),
     Hashes("e1", <<Item("A", "h2")>>),
     Hashes("e2", <<Item("A", "h1")>>),
     Hashes("", <<Item("A", "h1")>>),
     Hashes("e1", <<Item("A", "h1"), Item("B", "h1")>>),
     Hashes("e1", <<Item("A", "h1"), Item("A", "h1")>>)}
(* every manifest of up to MaxManifestLen inbounds *)
InboundHashes ==
    {Hashes(e, s) :
        e \in {"", "e1", "e2"},
        s \in UNION {[1..n -> [tag : Tags, hash : {"", "h1", "h2"}]] :
                        n \in 0..MaxManifestLen}}

StartRequest ==
    {[op |-> "Start", config |-> c, hashes |-> h, forceRestart |-> f] :
        c \in Configs, h \in ReqHashes, f \in BOOLEAN}
RestartRequest ==
    {[op |-> "Restart", config |-> c, hashes |-> h, forceRestart |-> f] :
        c \in {NoConfig, OkConfig({"A"})},
        h \in {NoHashes, Hashes("e1", <<Item("A", "h1")>>)},
        f \in BOOLEAN}
(* the requests of the concurrent callers *)
ConcHashes == {NoHashes, Hashes("e1", <<Item("A", "h1")>>)}
ConcStartRequest ==
    {r \in StartRequest : r.config = OkConfig({"A"}) /\ r.hashes \in ConcHashes}
ConcRestartRequest == RestartRequest
(* the Start requests issued next to user calls *)
UsersStartRequest ==
    {r \in ConcStartRequest : r.hashes.present /\ ~r.forceRestart}
NoReq == [op |-> "none", config |-> NoConfig, hashes |-> NoHashes, forceRestart |-> FALSE]
StopReq == [op |-> "Stop", config |-> NoConfig, hashes |-> NoHashes, forceRestart |-> FALSE]

NoLast == [config |-> NoConfig, hashes |-> NoHashes]
Last(r) == [config |-> r.config, hashes |-> r.hashes]

NoResult == [op |-> "none", kind |-> "none", version |-> ""]
Result(op, kind, version) == [op |-> op, kind |-> kind, version |-> version]

(* ------------------------- user requests ------------------------------ *)
(* protocol types of a request item; "other" is a type AddUser does not know *)
Types == {"vless", "other"}
UserData(type, tag) == [type |-> type, tag |-> tag]
UserDatas == {UserData(ty, t) : ty \in Types, t \in Tags}
HashData(v, pv) == [vlessUuid |-> v, prevVlessUuid |-> pv]
(* the prior identity key of a request: none, or a key that is no identity's *)
(* current key                                                               *)
PrevKeys == {"", "u0"}
AddUserRequest ==
    {[op |-> "AddUser", data |-> d, hashData |-> HashData(v, pv)] :
        d \in {<<>>,
               <<UserData("vless", "A")>>,
               <<UserData("vless", "B")>>,
               <<UserData("other", "A")>>,
               <<UserData("vless", "A"), UserData("vless", "B")>>,
               <<UserData("other", "A"), UserData("vless", "B")>>},
        v \in Keys, pv \in PrevKeys}
RemoveUserRequest == {[op |-> "RemoveUser", vlessUuid |-> v] : v \in Keys}
UserForBatch(d, hu, vu) == [inboundData |-> d, hashUuid |-> hu, vlessUuid |-> vu]
AddUsersRequest ==
    {[op |-> "AddUsers", affectedInboundTags |-> a, users |-> u] :
        a \in {<<"A">>, <<"A", "B">>},
        u \in {<<>>,
               <<UserForBatch(<<UserData("vless", "A")>>, "u1", "u1")>>,
               <<UserForBatch(<<UserData("vless", "B")>>, "u1", "u1")>>,
               <<UserForBatch(<<UserData("vless", "A"), UserData("other", "B")>>,
                              "u2", "u2")>>,
               <<UserForBatch(<<UserData("vless", "A")>>, "u1", "u2")>>,
               <<UserForBatch(<<UserData("vless", "A")>>, "u1", "u1"),
                 UserForBatch(<<UserData("vless", "A"), UserData("vless", "B")>>,
                              "u2", "u2")>>}}
RemoveUsersRequest ==
    {[op |-> "RemoveUsers", users |-> u] :
        u \in UNION {[1..n -> Keys] : n \in 0..2}}
(* the requests of the concurrent user calls *)
ConcAddUserRequest ==
    {r \in AddUserRequest :
        /\ Len(r.data) = 1 /\ r.data[1].type = "vless"
        /\ r.hashData = HashData("u1", "")}
ConcAddUsersRequest ==
    {r \in AddUsersRequest :
        /\ r.affectedInboundTags = <<"A">>
        /\ r.users = <<UserForBatch(<<UserData("vless", "B")>>, "u1", "u1")>>}
ConcRemoveUserRequest == {r \in RemoveUserRequest : r.vlessUuid = "u1"}
ConcRemoveUsersRequest == {r \in RemoveUsersRequest : r.users = <<"u1">>}
(* the requests of the calls checked against the engine: protocol types    *)
(* the engine knows                                                        *)
EngineAddUserRequest ==
    {[op |-> "AddUser", data |-> d, hashData |-> HashData(v, pv)] :
        d \in {<<UserData("vless", "A")>>,
               <<UserData("vless", "B")>>,
               <<UserData("vless", "A"), UserData("vless", "B")>>},
        v \in Keys, pv \in PrevKeys}
EngineRemoveUserRequest == {[op |-> "RemoveUser", vlessUuid |-> v] : v \in Keys}
NoUserReq == [op |-> "none"]
(* ------------------------- HashedSet inputs ---------------------------- *)
HsKeys == {"k1", "k2"}
(* values given as data: "d1b" serialises to the same JSON as "d1"; "bad" is *)
(* a value json.Marshal rejects                                             *)
HsData == {"d1", "d1b", "d2", "bad"}
NoHsCall == [op |-> "none"]
HsCall(op, key, data, r, before) ==
    [op |-> op, key |-> key, data |-> data, ret |-> r.ret, err |-> r.err,
     before |-> before]
(* ------------------------- SECRET_KEY inputs --------------------------- *)
Fields == {"caCertPem", "nodeCertPem", "nodeKeyPem", "jwtPublicKey"}
(* a member of a JSON object: absent, null, a number, or a string (the      *)
(* empty one included)                                                      *)
Members == {[form |-> "absent", value |-> ""], [form |-> "null", value |-> ""],
            [form |-> "number", value |-> ""], [form |-> "string", value |-> ""],
            [form |-> "string", value |-> "a"], [form |-> "string", value |-> "b"]}
JsonObjects == [Fields -> Members]
(* decoded bytes: a JSON object, or text that is not JSON *)
NotJson == [kind |-> "notJson"]
Bytes == {NotJson} \cup {[kind |-> "json", object |-> o] : o \in JsonObjects}
(* base64.StdEncoding.EncodeToString *)
EncodeToString(bytes) == [kind |-> "base64", bytes |-> bytes]
(* the SECRET_KEY values: the empty string, a string that is not base64,    *)
(* and the encodings of the decoded bytes                                   *)
EmptyKey == [kind |-> "empty"]
NotBase64 == [kind |-> "notBase64"]
SecretKeys == {EmptyKey, NotBase64} \cup {EncodeToString(b) : b \in Bytes}
NoSecretKey == [kind |-> "unset"]
NoPayload == [err |-> "none"]
(* a NodePayload, field -> string, and its json.Marshal *)
NodePayloads == [Fields -> {"", "a", "b"}]
MarshalPayload(p) ==
    [kind |-> "json", object |-> [f \in Fields |-> [form |-> "string", value |-> p[f]]]]

(* ------------------------- vision requests ---------------------------- *)
VProcs == 1..NumVisionCallers
IPs == {"ip1", "ip2"}
BlockIPRequest == {[op |-> "BlockIP", ip |-> ip] : ip \in IPs}
UnblockIPRequest == {[op |-> "UnblockIP", ip |-> ip] : ip \in IPs}
NoVisionReq == [op |-> "none", ip |-> ""]
(* exists: the local of that name; calls: the router calls of the call *)
NoVisionLocal == [exists |-> FALSE, calls |-> <<>>]
NoVisionResult == [success |-> FALSE, error |-> FALSE]
BlockIPResponse(success) == [success |-> success, error |-> ~success]
(* no checkXrayHealth call: position, call site, the local stats, attempt,  *)
(* the outcome of each probe issued (TRUE for a nil error), whether the     *)
(* select took ctx.Done(), and the value returned                           *)
NoHealth == [pc |-> "idle", site |-> "", stats |-> "", attempt |-> 0, probes |-> <<>>,
             cancelled |-> FALSE, result |-> FALSE]
(* where checkXrayHealth is called from: the skip decisions of Start and    *)
(* Restart (xray.go:280, 459) and their verification of a started engine    *)
(* (xray.go:371, 513)                                                       *)
HealthSites == {"skipDecision", "postStart"}
(* a getInboundLock caller outside a call: tag, and the locals lock, exists *)
NoGetLocal == [tag |-> "", lock |-> 0, exists |-> FALSE]
(* an engine instance without users *)
NoEngineUsers == [t \in Tags |-> {}]
(* the locals of a user call; before is the membership set that the        *)
(* identity of an AddUser or RemoveUser call had when the call came in,     *)
(* agreed whether the tracker and the engine held the same users then, log  *)
(* the engine calls made so far                                             *)
NoLocal == [allTags |-> {}, todo |-> {}, item |-> 0, user |-> 0,
            successCount |-> 0, failCount |-> 0, log |-> <<>>, before |-> {},
            agreed |-> FALSE, count |-> 0]

(* health probes of one checkXrayHealth call: probe i succeeds iff i >= k   *)
ProbeRuns == {[i \in 1..maxRetries |-> i >= k] : k \in 1..(maxRetries + 1)}
(* outcomes of running "xray version" *)
VersionOutputs == {"fail", "v1"}

VARIABLES
    isStartProcessing,      \* XrayService.isStartProcessing (atomic.Bool)
    mu,                     \* XrayService.mu: 0 when free, else the holder
    isXrayOnline,           \* XrayService.isXrayOnline
    isConfigured,           \* XrayService.isConfigured
    cachedVersion,          \* XrayService.cachedVersion
    disableHashedSetCheck,  \* cfg.DisableHashedSetCheck, given to both services
    configFile,             \* <configDir>/config.json
    emptyConfigHash,        \* InternalService.emptyConfigHash
    inboundHashSets,        \* InternalService.inboundHashSets: tag -> "users" hash
    xtlsConfigInbounds,     \* InternalService.xtlsConfigInbounds
    userInboundMap,         \* InternalService.userInboundMap: email -> tags
    pc,                     \* position of each caller in its handler
    req,                    \* the request of the call in progress
    log,                    \* what the call in progress has done so far
    result,                 \* response of the caller's latest call
    lastStart,              \* config and manifest of the latest lifecycle call, if
                            \* that was a Start answered isStarted=true
    running,                \* xraycore.Instance: running && instance != nil
    engineUsers,            \* the users the engine instance holds on each inbound
    inboundLocks,           \* HandlerService.inboundLocks: tag -> holder, 0 when free
    hpc,                    \* position of each HandlerService caller
    hreq,                   \* the request of the user call in progress
    local,                  \* its local variables: allTags still to visit, index of
                            \* the item and of the user, successCount, failCount
    hresult,                \* response of the user call in progress
    conn,                   \* xtls.Client.conn # nil
    routerRules,            \* the rule tags installed in the engine's router
    visionMu,               \* VisionService.mu: 0 when free, else the holder
    blockedIPs,             \* VisionService.blockedIPs: IP -> ruleTag
    vpc,                    \* position of each VisionService caller
    vreq,                   \* the request of the vision call in progress
    vlocal,                 \* its locals: exists, and the router calls it made
    vresult,                \* response of the vision call in progress
    hsHashes,               \* HashedSet.hashes: key -> hash
    hsCall,                 \* the latest HashedSet call and what it returned
    secretKey,              \* the SECRET_KEY given to ParseNodePayload
    payload,                \* what ParseNodePayload returned for it
    inboundMu,              \* HandlerService.inboundMu: its readers and its writer
    lockOf,                 \* HandlerService.inboundLocks as objects: tag -> mutex
    mutexes,                \* the mutex objects made so far: object -> holder, 0 free
    created,                \* every mutex object ever made for a tag
    gpc,                    \* position of each getInboundLock caller
    glocal,                 \* its tag and its local variables lock, exists
    health,                 \* the checkXrayHealth call in progress: its position,
                            \* attempt, the outcomes of its probes, what it returned
    ctxDone                 \* the caller's ctx.Done() has fired

xrayVars == <<isStartProcessing, mu, isXrayOnline, isConfigured, cachedVersion,
              disableHashedSetCheck, configFile>>
internalVars == <<emptyConfigHash, inboundHashSets, xtlsConfigInbounds, userInboundMap>>
procVars == <<pc, req, log, result, lastStart>>
handlerVars == <<inboundLocks, hpc, hreq, local, hresult>>
visionVars == <<conn, routerRules, visionMu, blockedIPs, vpc, vreq, vlocal, vresult>>
pkgVars == <<hsHashes, hsCall, secretKey, payload>>
registryVars == <<inboundMu, lockOf, mutexes, created, gpc, glocal>>
healthVars == <<health, ctxDone>>
sideVars == <<visionVars, pkgVars, registryVars, healthVars>>
vars == <<xrayVars, internalVars, procVars, running, engineUsers, handlerVars, sideVars>>

(* ----------------------------- helpers -------------------------------- *)
EmptyMap == [x \in {} |-> ""]
MaxOf(S) == CHOOSE x \in S : \A y \in S : y <= x

(* checkXrayHealth: up to maxRetries probes, true at the first success *)
checkXrayHealth(probes) == \E attempt \in 1..maxRetries : probes[attempt]

(* generateApiConfig: the request's config plus the stats, api and policy sections *)
generateApiConfig(config) == [config EXCEPT !.injected = TRUE]

(* GetVersion: the cached version if any, otherwise from "xray version" *)
GetVersion(out) ==
    IF cachedVersion # "" THEN cachedVersion
    ELSE IF out = "fail" THEN "unknown" ELSE out
GetVersionCache(out) ==
    IF cachedVersion # "" THEN cachedVersion
    ELSE IF out = "fail" THEN "" ELSE out

(* IsNeedRestartCore without the test of disableHashCheck *)
IsNeedRestartCoreNoDisable(hashes) ==
    LET n == Len(hashes.inbounds)
        incomingTags == {hashes.inbounds[i].tag : i \in 1..n}
    IN  IF emptyConfigHash = "" THEN TRUE
        ELSE IF emptyConfigHash # hashes.emptyConfig THEN TRUE
        ELSE IF n # Cardinality(DOMAIN inboundHashSets) THEN TRUE
        ELSE IF \E i \in 1..n :
                   \/ hashes.inbounds[i].tag \notin DOMAIN inboundHashSets
                   \/ inboundHashSets[hashes.inbounds[i].tag] # hashes.inbounds[i].hash
             THEN TRUE
        ELSE \E tag \in DOMAIN inboundHashSets : tag \notin incomingTags

(* IsNeedRestartCore without its last loop, the search for a removed inbound *)
IsNeedRestartCoreNoRemoved(hashes) ==
    LET n == Len(hashes.inbounds)
    IN  IF disableHashedSetCheck THEN TRUE
        ELSE IF emptyConfigHash = "" THEN TRUE
        ELSE IF emptyConfigHash # hashes.emptyConfig THEN TRUE
        ELSE IF n # Cardinality(DOMAIN inboundHashSets) THEN TRUE
        ELSE \E i \in 1..n :
                \/ hashes.inbounds[i].tag \notin DOMAIN inboundHashSets
                \/ inboundHashSets[hashes.inbounds[i].tag] # hashes.inbounds[i].hash

(* InternalService.IsNeedRestartCore *)
IsNeedRestartCore(hashes) ==
    LET n == Len(hashes.inbounds)
        incomingTags == {hashes.inbounds[i].tag : i \in 1..n}
    IN  IF disableHashedSetCheck THEN TRUE
        ELSE IF emptyConfigHash = "" THEN TRUE
        ELSE IF emptyConfigHash # hashes.emptyConfig THEN TRUE
        ELSE IF n # Cardinality(DOMAIN inboundHashSets) THEN TRUE
        ELSE IF \E i \in 1..n :
                   \/ hashes.inbounds[i].tag \notin DOMAIN inboundHashSets
                   \/ inboundHashSets[hashes.inbounds[i].tag] # hashes.inbounds[i].hash
             THEN TRUE
        ELSE IF \E tag \in DOMAIN inboundHashSets : tag \notin incomingTags THEN TRUE
        ELSE FALSE

(* validTags of ExtractUsersFromConfig: tag -> hash, a later item overwrites *)
validTags(hashes) ==
    LET n == Len(hashes.inbounds)
        tags == {hashes.inbounds[i].tag : i \in 1..n}
    IN  [t \in tags |->
            hashes.inbounds[MaxOf({i \in 1..n : hashes.inbounds[i].tag = t})].hash]

(* the inbounds of the config that ExtractUsersFromConfig accepts *)
acceptedInbounds(config, hashes) ==
    {t \in DOMAIN config.inbounds :
        t # "" /\ (hashes.present => t \in DOMAIN validTags(hashes))}

(* ExtractUsersFromConfig that does not record the manifest's emptyConfig hash *)
ExtractUsersFromConfigNoBase(config, hashes) ==
    IF config.kind # "ok"
    THEN UNCHANGED internalVars
    ELSE LET acc == acceptedInbounds(config, hashes)
             users == {e \in Emails \ {""} : \E t \in acc : e \in config.inbounds[t]}
         IN  /\ UNCHANGED emptyConfigHash
             /\ inboundHashSets' =
                    [t \in acc |-> IF hashes.present THEN validTags(hashes)[t] ELSE ""]
             /\ xtlsConfigInbounds' = acc
             /\ userInboundMap' =
                    [e \in users |-> {t \in acc : e \in config.inbounds[t]}]

(* ExtractUsersFromConfig that keeps the membership entries it finds *)
ExtractUsersFromConfigKeepsUsers(config, hashes) ==
    IF config.kind # "ok"
    THEN UNCHANGED internalVars
    ELSE LET acc == acceptedInbounds(config, hashes)
             users == {e \in Emails \ {""} : \E t \in acc : e \in config.inbounds[t]}
         IN  /\ emptyConfigHash' = IF hashes.present THEN hashes.emptyConfig
                                   ELSE emptyConfigHash
             /\ inboundHashSets' =
                    [t \in acc |-> IF hashes.present THEN validTags(hashes)[t] ELSE ""]
             /\ xtlsConfigInbounds' = acc
             /\ userInboundMap' =
                    [e \in users \cup DOMAIN userInboundMap |->
                        {t \in acc : e \in config.inbounds[t]} \cup
                        (IF e \in DOMAIN userInboundMap THEN userInboundMap[e] ELSE {})]

(* InternalService.ExtractUsersFromConfig *)
ExtractUsersFromConfig(config, hashes) ==
    IF config.kind # "ok"
    THEN UNCHANGED internalVars
    ELSE LET acc == acceptedInbounds(config, hashes)
             users == {e \in Emails \ {""} : \E t \in acc : e \in config.inbounds[t]}
         IN  /\ emptyConfigHash' = IF hashes.present THEN hashes.emptyConfig
                                   ELSE emptyConfigHash
             /\ inboundHashSets' =
                    [t \in acc |-> IF hashes.present THEN validTags(hashes)[t] ELSE ""]
             /\ xtlsConfigInbounds' = acc
             /\ userInboundMap' =
                    [e \in users |-> {t \in acc : e \in config.inbounds[t]}]

(* Cleanup that keeps the emptyConfig hash *)
CleanupKeepsBase ==
    /\ userInboundMap' = EmptyMap
    /\ inboundHashSets' = EmptyMap
    /\ xtlsConfigInbounds' = {}
    /\ UNCHANGED emptyConfigHash

(* InternalService.Cleanup *)
Cleanup ==
    /\ userInboundMap' = EmptyMap
    /\ inboundHashSets' = EmptyMap
    /\ xtlsConfigInbounds' = {}
    /\ emptyConfigHash' = ""

(* ------------------------------- Init --------------------------------- *)
Init ==
    /\ isStartProcessing = FALSE
    /\ mu = 0
    /\ isXrayOnline = FALSE
    /\ isConfigured = FALSE
    /\ cachedVersion = ""
    /\ disableHashedSetCheck \in BOOLEAN
    /\ configFile = NoConfig
    /\ emptyConfigHash = ""
    /\ inboundHashSets = EmptyMap
    /\ xtlsConfigInbounds = {}
    /\ userInboundMap = EmptyMap
    /\ pc = [p \in Procs |-> "idle"]
    /\ req = [p \in Procs |-> NoReq]
    /\ log = [p \in Procs |-> <<>>]
    /\ result = [p \in Procs |-> NoResult]
    /\ lastStart = NoLast
    /\ running = FALSE
    /\ engineUsers = NoEngineUsers
    /\ inboundLocks = EmptyMap
    /\ hpc = [h \in HProcs |-> "idle"]
    /\ hreq = [h \in HProcs |-> NoUserReq]
    /\ local = [h \in HProcs |-> NoLocal]
    /\ hresult = [h \in HProcs |-> NoResult]
    /\ conn = FALSE
    /\ routerRules = {}
    /\ visionMu = 0
    /\ blockedIPs = EmptyMap
    /\ vpc = [v \in VProcs |-> "idle"]
    /\ vreq = [v \in VProcs |-> NoVisionReq]
    /\ vlocal = [v \in VProcs |-> NoVisionLocal]
    /\ vresult = [v \in VProcs |-> NoVisionResult]
    /\ hsHashes = EmptyMap
    /\ hsCall = NoHsCall
    /\ secretKey = NoSecretKey
    /\ payload = NoPayload
    /\ inboundMu = [readers |-> {}, writer |-> 0]
    /\ lockOf = [t \in {} |-> 0]
    /\ mutexes = <<>>
    /\ created = [t \in Tags |-> {}]
    /\ gpc = [g \in GProcs |-> "idle"]
    /\ glocal = [g \in GProcs |-> NoGetLocal]
    /\ health = NoHealth
    /\ ctxDone = FALSE

(* a step of a lifecycle call leaves the engine instance and the user calls *)
(* alone                                                                    *)
LifecycleFrame ==
    /\ UNCHANGED <<running, engineUsers, handlerVars, sideVars>>

(* --------------------------- XrayService.Start ------------------------ *)
(* a guard that lets every caller in *)
CompareAndSwapAlways == TRUE

(* the compare-and-swap of the single-flight guard succeeds *)
CompareAndSwap == isStartProcessing = FALSE

Goto(p, l) == pc' = [pc EXCEPT ![p] = l]
Logged(p, e) == log' = [log EXCEPT ![p] = Append(@, e)]
Return(p, r) == result' = [result EXCEPT ![p] = r]
Forget(p) ==
    /\ req' = [req EXCEPT ![p] = NoReq]
    /\ log' = [log EXCEPT ![p] = <<>>]
    /\ Return(p, NoResult)

(* a rejected call that runs the deferred Store(false) all the same *)
StartRejectedClears(p) ==
    /\ pc[p] = "idle"
    /\ ~CompareAndSwap
    /\ isStartProcessing' = FALSE
    /\ result' = [result EXCEPT ![p] = Result("Start", "inProgress", "")]
    /\ UNCHANGED <<mu, isXrayOnline, isConfigured, cachedVersion,
                   disableHashedSetCheck, configFile, internalVars, pc, req, log,
                   lastStart>>
    /\ LifecycleFrame

StartRejected(p) ==
    /\ pc[p] = "idle"
    /\ ~CompareAndSwap
    /\ Return(p, Result("Start", "inProgress", ""))
    /\ UNCHANGED <<xrayVars, internalVars, pc, req, log, lastStart>>
    /\ LifecycleFrame

StartBegin(p, r) ==
    /\ pc[p] = "idle"
    /\ CompareAndSwap
    /\ isStartProcessing' = TRUE
    /\ Goto(p, "StartLock")
    /\ req' = [req EXCEPT ![p] = r]
    /\ log' = [log EXCEPT ![p] = <<>>]
    /\ Return(p, Result("Start", "pending", ""))
    /\ UNCHANGED <<mu, isXrayOnline, isConfigured, cachedVersion,
                   disableHashedSetCheck, configFile, internalVars, lastStart>>
    /\ LifecycleFrame

StartLock(p) ==
    /\ pc[p] = "StartLock"
    /\ mu = 0
    /\ mu' = p
    /\ Goto(p, "StartDecide")
    /\ UNCHANGED <<isStartProcessing, isXrayOnline, isConfigured, cachedVersion,
                   disableHashedSetCheck, configFile, internalVars, req, log, result,
                   lastStart>>
    /\ LifecycleFrame

(* the condition of xray.go:278 (Start) under which the engine is probed *)
StartProbes(r) ==
    isXrayOnline /\ ~disableHashedSetCheck /\ ~r.forceRestart /\ r.hashes.present

(* the "first start" skip of xray.go:310-326, entered with isXrayOnline = online *)
StartFirstSkip(r, online) ==
    ~r.forceRestart /\ ~online /\ r.hashes.present /\ ~IsNeedRestartCore(r.hashes)

(* isXrayOnline after the probe of a skip decision, xray.go:297-300, 471-474 *)
OnlineAfterProbe(probed, healthy) ==
    IF probed /\ ~healthy THEN FALSE ELSE isXrayOnline

(* whether Start answers without starting the engine, given the outcome of   *)
(* its health check, xray.go:276-326                                         *)
StartSkips(r, healthy) ==
    \/ StartProbes(r) /\ healthy /\ ~IsNeedRestartCore(r.hashes)
    \/ StartFirstSkip(r, OnlineAfterProbe(StartProbes(r), healthy))

(* the two skip decisions of Start, xray.go:276-326 *)
StartDecide(p) ==
    /\ pc[p] = "StartDecide"
    /\ \E probes \in ProbeRuns :
        LET r == req[p]
            probed == StartProbes(r)
            healthy == checkXrayHealth(probes)
            skip == StartSkips(r, healthy)
        IN  /\ isXrayOnline' = OnlineAfterProbe(probed, healthy)
            /\ log' = [log EXCEPT ![p] =
                          (IF lastStart = Last(r) THEN <<"repeat">> ELSE <<>>)
                          \o (IF probed
                              THEN <<IF healthy THEN "probeOk" ELSE "probeFail">>
                              ELSE <<>>)]
            /\ IF skip
               THEN /\ Return(p, Result("Start", "skipped", cachedVersion))
                    /\ Goto(p, "StartRet")
                    /\ lastStart' = Last(r)
               ELSE /\ Goto(p, "StartWrite")
                    /\ lastStart' = NoLast
                    /\ UNCHANGED result
    /\ UNCHANGED <<isStartProcessing, mu, isConfigured, cachedVersion,
                   disableHashedSetCheck, configFile, internalVars, req>>
    /\ LifecycleFrame

(* StartWrite that goes on to the extraction after a failed write *)
StartWriteContinues(p) ==
    /\ pc[p] = "StartWrite"
    /\ \/ /\ configFile' = generateApiConfig(req[p].config)
          /\ Logged(p, "write")
          /\ Goto(p, "StartExtract")
          /\ UNCHANGED result
       \/ /\ Return(p, Result("Start", "hardError", ""))
          /\ Goto(p, "StartExtract")
          /\ UNCHANGED <<configFile, log>>
    /\ UNCHANGED <<isStartProcessing, mu, isXrayOnline, isConfigured, cachedVersion,
                   disableHashedSetCheck, internalVars, req, lastStart>>
    /\ LifecycleFrame

(* generateApiConfig, MkdirAll and WriteFile, xray.go:328-347 *)
StartWrite(p) ==
    /\ pc[p] = "StartWrite"
    /\ \/ /\ configFile' = generateApiConfig(req[p].config)
          /\ Logged(p, "write")
          /\ Goto(p, "StartExtract")
          /\ UNCHANGED result
       \/ /\ Return(p, Result("Start", "hardError", ""))
          /\ Goto(p, "StartRet")
          /\ UNCHANGED <<configFile, log>>
    /\ UNCHANGED <<isStartProcessing, mu, isXrayOnline, isConfigured, cachedVersion,
                   disableHashedSetCheck, internalVars, req, lastStart>>
    /\ LifecycleFrame

StartExtract(p) ==
    /\ pc[p] = "StartExtract"
    /\ ExtractUsersFromConfig(generateApiConfig(req[p].config), req[p].hashes)
    /\ Logged(p, "rebuild")
    /\ Goto(p, "StartProcess")
    /\ UNCHANGED <<xrayVars, req, result, lastStart>>
    /\ LifecycleFrame

(* StartProcess that marks the engine online as soon as the supervisor answers *)
StartProcessMarksOnline(p) ==
    /\ pc[p] = "StartProcess"
    /\ \/ /\ Logged(p, "engineStart")
          /\ isXrayOnline' = TRUE
          /\ Goto(p, "StartVerify")
          /\ UNCHANGED result
       \/ /\ log' = [log EXCEPT ![p] = @ \o <<"engineStart", "engineFailed">>]
          /\ isXrayOnline' = FALSE
          /\ Return(p, Result("Start", "engineError", ""))
          /\ Goto(p, "StartRet")
    /\ UNCHANGED <<isStartProcessing, mu, isConfigured, cachedVersion,
                   disableHashedSetCheck, configFile, internalVars, req, lastStart>>
    /\ LifecycleFrame

(* supervisor.StartProcess, xray.go:356-363 *)
StartProcess(p) ==
    /\ pc[p] = "StartProcess"
    /\ \/ /\ Logged(p, "engineStart")
          /\ Goto(p, "StartVerify")
          /\ UNCHANGED <<isXrayOnline, result>>
       \/ /\ log' = [log EXCEPT ![p] = @ \o <<"engineStart", "engineFailed">>]
          /\ isXrayOnline' = FALSE
          /\ Return(p, Result("Start", "engineError", ""))
          /\ Goto(p, "StartRet")
    /\ UNCHANGED <<isStartProcessing, mu, isConfigured, cachedVersion,
                   disableHashedSetCheck, configFile, internalVars, req, lastStart>>
    /\ LifecycleFrame

(* StartVerify that leaves isXrayOnline alone when the verification fails *)
StartVerifyKeepsOnline(p) ==
    /\ pc[p] = "StartVerify"
    /\ \E probes \in ProbeRuns, out \in VersionOutputs :
        IF checkXrayHealth(probes)
        THEN /\ cachedVersion' = GetVersionCache(out)
             /\ isConfigured' = TRUE
             /\ isXrayOnline' = TRUE
             /\ Logged(p, "verified")
             /\ Return(p, Result("Start", "started", GetVersion(out)))
             /\ lastStart' = Last(req[p])
        ELSE /\ Logged(p, "verifyFailed")
             /\ Return(p, Result("Start", "healthError", ""))
             /\ UNCHANGED <<isXrayOnline, cachedVersion, isConfigured, lastStart>>
    /\ Goto(p, "StartRet")
    /\ UNCHANGED <<isStartProcessing, mu, disableHashedSetCheck, configFile,
                   internalVars, req>>
    /\ LifecycleFrame

(* WaitForReady, checkXrayHealth and GetVersion, xray.go:365-388 *)
StartVerify(p) ==
    /\ pc[p] = "StartVerify"
    /\ \E probes \in ProbeRuns, out \in VersionOutputs :
        IF checkXrayHealth(probes)
        THEN /\ cachedVersion' = GetVersionCache(out)
             /\ isConfigured' = TRUE
             /\ isXrayOnline' = TRUE
             /\ Logged(p, "verified")
             /\ Return(p, Result("Start", "started", GetVersion(out)))
             /\ lastStart' = Last(req[p])
        ELSE /\ isXrayOnline' = FALSE
             /\ Logged(p, "verifyFailed")
             /\ Return(p, Result("Start", "healthError", ""))
             /\ UNCHANGED <<cachedVersion, isConfigured, lastStart>>
    /\ Goto(p, "StartRet")
    /\ UNCHANGED <<isStartProcessing, mu, disableHashedSetCheck, configFile,
                   internalVars, req>>
    /\ LifecycleFrame

(* the deferred mu.Unlock and isStartProcessing.Store(false) *)
StartUnlock(p) ==
    /\ pc[p] = "StartRet"
    /\ mu' = 0
    /\ Goto(p, "StartRelease")
    /\ UNCHANGED <<isStartProcessing, isXrayOnline, isConfigured, cachedVersion,
                   disableHashedSetCheck, configFile, internalVars, req, log, result,
                   lastStart>>
    /\ LifecycleFrame

StartRelease(p) ==
    /\ pc[p] = "StartRelease"
    /\ isStartProcessing' = FALSE
    /\ Goto(p, "idle")
    /\ Forget(p)
    /\ UNCHANGED <<mu, isXrayOnline, isConfigured, cachedVersion,
                   disableHashedSetCheck, configFile, internalVars, lastStart>>
    /\ LifecycleFrame

(* ---------------------------- XrayService.Stop ------------------------ *)
(* a Stop that does not wait for the state lock *)
StopLockNoWait(p) ==
    /\ pc[p] = "idle"
    /\ mu' = p
    /\ Goto(p, "StopProcess")
    /\ req' = [req EXCEPT ![p] = StopReq]
    /\ log' = [log EXCEPT ![p] = <<>>]
    /\ Return(p, Result("Stop", "pending", ""))
    /\ UNCHANGED <<isStartProcessing, isXrayOnline, isConfigured, cachedVersion,
                   disableHashedSetCheck, configFile, internalVars, lastStart>>
    /\ LifecycleFrame

(* s.mu.Lock(), xray.go:407-408 *)
StopLock(p) ==
    /\ pc[p] = "idle"
    /\ mu = 0
    /\ mu' = p
    /\ Goto(p, "StopProcess")
    /\ req' = [req EXCEPT ![p] = StopReq]
    /\ log' = [log EXCEPT ![p] = <<>>]
    /\ Return(p, Result("Stop", "pending", ""))
    /\ UNCHANGED <<isStartProcessing, isXrayOnline, isConfigured, cachedVersion,
                   disableHashedSetCheck, configFile, internalVars, lastStart>>
    /\ LifecycleFrame

(* StopProcess that marks the controller stopped even when the engine stop fails *)
StopProcessFailStops(p) ==
    /\ pc[p] = "StopProcess"
    /\ \/ /\ Logged(p, "engineStop")
          /\ Goto(p, "StopCleanup")
          /\ UNCHANGED <<isXrayOnline, isConfigured, result>>
       \/ /\ log' = [log EXCEPT ![p] = @ \o <<"engineStop", "engineFailed">>]
          /\ isXrayOnline' = FALSE
          /\ isConfigured' = FALSE
          /\ Return(p, Result("Stop", "stopFailed", ""))
          /\ Goto(p, "StopRet")
    /\ lastStart' = NoLast
    /\ UNCHANGED <<isStartProcessing, mu, cachedVersion, disableHashedSetCheck,
                   configFile, internalVars, req>>
    /\ LifecycleFrame

(* supervisor.StopProcess, xray.go:410-412 *)
StopProcess(p) ==
    /\ pc[p] = "StopProcess"
    /\ \/ /\ Logged(p, "engineStop")
          /\ Goto(p, "StopCleanup")
          /\ UNCHANGED result
       \/ /\ log' = [log EXCEPT ![p] = @ \o <<"engineStop", "engineFailed">>]
          /\ Return(p, Result("Stop", "stopFailed", ""))
          /\ Goto(p, "StopRet")
    /\ lastStart' = NoLast
    /\ UNCHANGED <<xrayVars, internalVars, req>>
    /\ LifecycleFrame

(* xray.go:414-422 *)
StopCleanup(p) ==
    /\ pc[p] = "StopCleanup"
    /\ isConfigured' = FALSE
    /\ isXrayOnline' = FALSE
    /\ Cleanup
    /\ Logged(p, "cleanup")
    /\ Return(p, Result("Stop", "stopped", ""))
    /\ Goto(p, "StopRet")
    /\ UNCHANGED <<isStartProcessing, mu, cachedVersion, disableHashedSetCheck,
                   configFile, req, lastStart>>
    /\ LifecycleFrame

StopUnlock(p) ==
    /\ pc[p] = "StopRet"
    /\ mu' = 0
    /\ Goto(p, "idle")
    /\ Forget(p)
    /\ UNCHANGED <<isStartProcessing, isXrayOnline, isConfigured, cachedVersion,
                   disableHashedSetCheck, configFile, internalVars, lastStart>>
    /\ LifecycleFrame

(* -------------------------- XrayService.Restart ----------------------- *)
RestartRejected(p) ==
    /\ pc[p] = "idle"
    /\ ~CompareAndSwap
    /\ Return(p, Result("Restart", "inProgress", ""))
    /\ UNCHANGED <<xrayVars, internalVars, pc, req, log, lastStart>>
    /\ LifecycleFrame

RestartBegin(p, r) ==
    /\ pc[p] = "idle"
    /\ CompareAndSwap
    /\ isStartProcessing' = TRUE
    /\ Goto(p, "RestartLock")
    /\ req' = [req EXCEPT ![p] = r]
    /\ log' = [log EXCEPT ![p] = <<>>]
    /\ Return(p, Result("Restart", "pending", ""))
    /\ UNCHANGED <<mu, isXrayOnline, isConfigured, cachedVersion,
                   disableHashedSetCheck, configFile, internalVars, lastStart>>
    /\ LifecycleFrame

RestartLock(p) ==
    /\ pc[p] = "RestartLock"
    /\ mu = 0
    /\ mu' = p
    /\ Goto(p, "RestartDecide")
    /\ UNCHANGED <<isStartProcessing, isXrayOnline, isConfigured, cachedVersion,
                   disableHashedSetCheck, configFile, internalVars, req, log, result,
                   lastStart>>
    /\ LifecycleFrame

(* the condition of xray.go:458 (Restart) under which the engine is probed *)
RestartProbes(r) == isXrayOnline /\ ~r.forceRestart /\ r.hashes.present

(* whether Restart answers without restarting the engine, given the outcome  *)
(* of its health check, xray.go:457-475                                      *)
RestartSkips(r, healthy) ==
    RestartProbes(r) /\ healthy /\ ~IsNeedRestartCore(r.hashes)

(* the skip decision of Restart, xray.go:457-479 *)
RestartDecide(p) ==
    /\ pc[p] = "RestartDecide"
    /\ \E probes \in ProbeRuns :
        LET r == req[p]
            probed == RestartProbes(r)
            healthy == checkXrayHealth(probes)
            skip == RestartSkips(r, healthy)
        IN  /\ isXrayOnline' = OnlineAfterProbe(probed, healthy)
            /\ log' = [log EXCEPT ![p] =
                          IF probed
                          THEN <<IF healthy THEN "probeOk" ELSE "probeFail">>
                          ELSE <<>>]
            /\ IF skip
               THEN /\ Return(p, Result("Restart", "skipped", cachedVersion))
                    /\ Goto(p, "RestartRet")
               ELSE /\ Goto(p, IF r.config.kind # "none" THEN "RestartWrite"
                                ELSE "RestartProcess")
                    /\ UNCHANGED result
    /\ lastStart' = NoLast
    /\ UNCHANGED <<isStartProcessing, mu, isConfigured, cachedVersion,
                   disableHashedSetCheck, configFile, internalVars, req>>
    /\ LifecycleFrame

(* WriteFile of the request's config as given, xray.go:482-487 *)
RestartWrite(p) ==
    /\ pc[p] = "RestartWrite"
    /\ \/ /\ configFile' = req[p].config
          /\ Logged(p, "write")
          /\ Goto(p, "RestartExtract")
          /\ UNCHANGED result
       \/ /\ Return(p, Result("Restart", "hardError", ""))
          /\ Goto(p, "RestartRet")
          /\ UNCHANGED <<configFile, log>>
    /\ UNCHANGED <<isStartProcessing, mu, isXrayOnline, isConfigured, cachedVersion,
                   disableHashedSetCheck, internalVars, req, lastStart>>
    /\ LifecycleFrame

RestartExtract(p) ==
    /\ pc[p] = "RestartExtract"
    /\ ExtractUsersFromConfig(req[p].config, req[p].hashes)
    /\ Logged(p, "rebuild")
    /\ Goto(p, "RestartProcess")
    /\ UNCHANGED <<xrayVars, req, result, lastStart>>
    /\ LifecycleFrame

(* supervisor.RestartProcess, xray.go:497-505 *)
RestartProcess(p) ==
    /\ pc[p] = "RestartProcess"
    /\ \/ /\ Logged(p, "engineRestart")
          /\ Goto(p, "RestartVerify")
          /\ UNCHANGED <<isXrayOnline, result>>
       \/ /\ log' = [log EXCEPT ![p] = @ \o <<"engineRestart", "engineFailed">>]
          /\ isXrayOnline' = FALSE
          /\ Return(p, Result("Restart", "engineError", cachedVersion))
          /\ Goto(p, "RestartRet")
    /\ UNCHANGED <<isStartProcessing, mu, isConfigured, cachedVersion,
                   disableHashedSetCheck, configFile, internalVars, req, lastStart>>
    /\ LifecycleFrame

(* WaitForReady, checkXrayHealth and GetVersion, xray.go:507-536 *)
RestartVerify(p) ==
    /\ pc[p] = "RestartVerify"
    /\ \E probes \in ProbeRuns, out \in VersionOutputs :
        IF checkXrayHealth(probes)
        THEN /\ cachedVersion' = GetVersionCache(out)
             /\ isConfigured' = TRUE
             /\ isXrayOnline' = TRUE
             /\ Logged(p, "verified")
             /\ Return(p, Result("Restart", "started", GetVersion(out)))
        ELSE /\ isXrayOnline' = FALSE
             /\ Logged(p, "verifyFailed")
             /\ Return(p, Result("Restart", "healthError", cachedVersion))
             /\ UNCHANGED <<cachedVersion, isConfigured>>
    /\ Goto(p, "RestartRet")
    /\ UNCHANGED <<isStartProcessing, mu, disableHashedSetCheck, configFile,
                   internalVars, req, lastStart>>
    /\ LifecycleFrame

RestartUnlock(p) ==
    /\ pc[p] = "RestartRet"
    /\ mu' = 0
    /\ Goto(p, "RestartRelease")
    /\ UNCHANGED <<isStartProcessing, isXrayOnline, isConfigured, cachedVersion,
                   disableHashedSetCheck, configFile, internalVars, req, log, result,
                   lastStart>>
    /\ LifecycleFrame

RestartRelease(p) ==
    /\ pc[p] = "RestartRelease"
    /\ isStartProcessing' = FALSE
    /\ Goto(p, "idle")
    /\ Forget(p)
    /\ UNCHANGED <<mu, isXrayOnline, isConfigured, cachedVersion,
                   disableHashedSetCheck, configFile, internalVars, lastStart>>
    /\ LifecycleFrame

(* ------------------------- xraycore.Instance -------------------------- *)
(* Instance.Start when none runs: the engine runs afterwards iff the new   *)
(* instance started; a new instance holds no user added by a user call     *)
InstanceStart ==
    /\ ~running
    /\ running' \in BOOLEAN
    /\ engineUsers' = NoEngineUsers
    /\ UNCHANGED <<xrayVars, internalVars, procVars, handlerVars, sideVars>>

(* Instance.Stop: closes the instance, or fails and leaves it *)
InstanceStop ==
    /\ running
    /\ running' \in BOOLEAN
    /\ engineUsers' = IF running' THEN engineUsers ELSE NoEngineUsers
    /\ UNCHANGED <<xrayVars, internalVars, procVars, handlerVars, sideVars>>

(* outcomes of Instance.AddUser and Instance.RemoveUser: TRUE for a nil error; *)
(* both return an error when there is no instance                              *)
EngineOutcomes == IF running THEN BOOLEAN ELSE {FALSE}

(* the users of the engine after Instance.AddUser and Instance.RemoveUser *)
(* for the user name on the inbound tag, by outcome                       *)
EngineAddUser(name, tag, ok) ==
    IF ok THEN [engineUsers EXCEPT ![tag] = @ \cup {name}] ELSE engineUsers
EngineRemoveUser(name, tag, ok) ==
    IF ok THEN [engineUsers EXCEPT ![tag] = @ \ {name}] ELSE engineUsers

(* ------------------------- tracker operations ------------------------- *)
GetXtlsConfigInbounds == xtlsConfigInbounds

AddXtlsConfigInbound(tag) == xtlsConfigInbounds \cup {tag}

AddUserToInbound(email, tag) ==
    [e \in DOMAIN userInboundMap \cup {email} |->
        IF e = email
        THEN (IF email \in DOMAIN userInboundMap THEN userInboundMap[email] ELSE {})
             \cup {tag}
        ELSE userInboundMap[e]]

(* RemoveUserFromInbound that keeps an entry whose last tag was removed *)
RemoveUserFromInboundNoPrune(email, tag) ==
    IF email \in DOMAIN userInboundMap
    THEN [userInboundMap EXCEPT ![email] = @ \ {tag}]
    ELSE userInboundMap

RemoveUserFromInbound(email, tag) ==
    IF email \in DOMAIN userInboundMap
    THEN IF userInboundMap[email] \ {tag} = {}
         THEN [e \in DOMAIN userInboundMap \ {email} |-> userInboundMap[e]]
         ELSE [userInboundMap EXCEPT ![email] = @ \ {tag}]
    ELSE userInboundMap

(* ------------------------- per-inbound locks --------------------------- *)
(* getInboundLock(tag) followed by Lock: possible when no caller holds it *)
LockFree(tag) == IF tag \in DOMAIN inboundLocks THEN inboundLocks[tag] = 0 ELSE TRUE
Lock(tag, h) ==
    inboundLocks' = [t \in DOMAIN inboundLocks \cup {tag} |->
                        IF t = tag THEN h ELSE inboundLocks[t]]
(* an Unlock that leaves the lock with its holder *)
UnlockKeeps(tag) == UNCHANGED inboundLocks
Unlock(tag) == inboundLocks' = [inboundLocks EXCEPT ![tag] = 0]
(* the tag whose lock h holds *)
HeldTag(h) == CHOOSE t \in DOMAIN inboundLocks : inboundLocks[t] = h

HGoto(h, l) == hpc' = [hpc EXCEPT ![h] = l]
HReturn(h, op, kind) == hresult' = [hresult EXCEPT ![h] = Result(op, kind, "")]
(* what a user call leaves alone *)
otherVars == <<xrayVars, procVars, emptyConfigHash, inboundHashSets, running, sideVars>>

(* the membership set of an identity, and the target tags of a request *)
Membership(key) == IF key \in DOMAIN userInboundMap THEN userInboundMap[key] ELSE {}
TargetTags(data) == {data[i].tag : i \in 1..Len(data)}

(* the users the tracker holds for a tag, and their number *)
GetUsersInInbound(tag) == {k \in DOMAIN userInboundMap : tag \in userInboundMap[k]}
GetUsersCountInInbound(tag) == Cardinality(GetUsersInInbound(tag))

(* the tracker and the engine hold the same users on every inbound *)
TrackerAgrees == \A t \in Tags : GetUsersInInbound(t) = engineUsers[t]

(* ------------------------ HandlerService.AddUser ---------------------- *)
AddUserBegin(h, r) ==
    /\ hpc[h] = "idle"
    /\ hreq' = [hreq EXCEPT ![h] = r]
    /\ IF ~running
       THEN HReturn(h, "AddUser", "notRunning") /\ HGoto(h, "AddUserRet")
                /\ UNCHANGED local
       ELSE IF Len(r.data) = 0
       THEN HReturn(h, "AddUser", "noData") /\ HGoto(h, "AddUserRet")
                /\ UNCHANGED local
       ELSE /\ HReturn(h, "AddUser", "pending")
            /\ HGoto(h, "AddUserTrack")
            /\ local' = [local EXCEPT ![h].item = 1,
                                      ![h].before = Membership(r.hashData.vlessUuid),
                                      ![h].agreed = TrackerAgrees]
    /\ UNCHANGED <<otherVars, engineUsers, xtlsConfigInbounds, userInboundMap, inboundLocks>>

(* AddUserTrack that also opens a hash set for the tag it tracks *)
AddUserTrackOpensHashSet(h) ==
    /\ hpc[h] = "AddUserTrack"
    /\ xtlsConfigInbounds' = AddXtlsConfigInbound(hreq[h].data[local[h].item].tag)
    /\ inboundHashSets' =
          [t \in DOMAIN inboundHashSets \cup {hreq[h].data[local[h].item].tag} |->
              IF t \in DOMAIN inboundHashSets THEN inboundHashSets[t] ELSE ""]
    /\ IF local[h].item < Len(hreq[h].data)
       THEN local' = [local EXCEPT ![h].item = @ + 1] /\ UNCHANGED hpc
       ELSE local' = [local EXCEPT ![h].item = 1] /\ HGoto(h, "AddUserSnapshot")
    /\ UNCHANGED <<xrayVars, procVars, emptyConfigHash, running, sideVars, engineUsers,
                   userInboundMap, inboundLocks, hreq, hresult>>

(* step 1: one AddXtlsConfigInbound per item, handler.go:152-155 *)
AddUserTrack(h) ==
    /\ hpc[h] = "AddUserTrack"
    /\ xtlsConfigInbounds' = AddXtlsConfigInbound(hreq[h].data[local[h].item].tag)
    /\ IF local[h].item < Len(hreq[h].data)
       THEN local' = [local EXCEPT ![h].item = @ + 1] /\ UNCHANGED hpc
       ELSE local' = [local EXCEPT ![h].item = 1] /\ HGoto(h, "AddUserSnapshot")
    /\ UNCHANGED <<otherVars, engineUsers, userInboundMap, inboundLocks, hreq, hresult>>

(* allTags := GetXtlsConfigInbounds(), handler.go:158 *)
AddUserSnapshot(h) ==
    /\ hpc[h] = "AddUserSnapshot"
    /\ local' = [local EXCEPT ![h].allTags = GetXtlsConfigInbounds,
                              ![h].todo = GetXtlsConfigInbounds]
    /\ HGoto(h, IF GetXtlsConfigInbounds = {} THEN "AddUserAdd" ELSE "AddUserRemove")
    /\ UNCHANGED <<otherVars, engineUsers, xtlsConfigInbounds, userInboundMap, inboundLocks,
                   hreq, hresult>>

(* step 2, the lock of the next tag of allTags, handler.go:159-161 *)
AddUserRemoveLock(h) ==
    /\ hpc[h] = "AddUserRemove"
    /\ \E tag \in local[h].todo :
        /\ LockFree(tag)
        /\ Lock(tag, h)
    /\ HGoto(h, "AddUserRemoveBody")
    /\ UNCHANGED <<otherVars, engineUsers, xtlsConfigInbounds, userInboundMap, hreq, local,
                   hresult>>

(* a removal phase that drops the entry of the prior identity key only *)
RemovedKeyPrior(hashData) == hashData.prevVlessUuid

(* the identity whose entry the removal phase of AddUser drops, handler.go:170-174 *)
RemovedKey(hashData) ==
    IF hashData.prevVlessUuid # "" THEN hashData.prevVlessUuid ELSE hashData.vlessUuid

(* what the log keeps of the engine removal of step 2: whether it failed    *)
(* for a user that the engine holds on the tag                              *)
RemoveEntry(r, tag, ok) ==
    IF ~ok /\ r.hashData.vlessUuid \in engineUsers[tag] THEN "removeIgnored"
    ELSE "remove"

(* step 2 under the lock: engine removal (its result ignored), tracker       *)
(* removal, unlock, handler.go:167-176                                       *)
AddUserRemoveBody(h) ==
    /\ hpc[h] = "AddUserRemoveBody"
    /\ LET tag == HeldTag(h)
           rest == local[h].todo \ {tag}
       IN  /\ \E ok \in EngineOutcomes :
                /\ engineUsers' = EngineRemoveUser(hreq[h].hashData.vlessUuid, tag, ok)
                /\ local' = [local EXCEPT
                                ![h].todo = rest,
                                ![h].log = Append(@, <<RemoveEntry(hreq[h], tag, ok),
                                                       tag>>)]
           /\ userInboundMap' = RemoveUserFromInbound(RemovedKey(hreq[h].hashData), tag)
           /\ Unlock(tag)
           /\ HGoto(h, IF rest = {} THEN "AddUserAdd" ELSE "AddUserRemove")
    /\ UNCHANGED <<otherVars, xtlsConfigInbounds, hreq, hresult>>

(* step 3, the lock of the item's tag, handler.go:183-185 *)
AddUserAddLock(h) ==
    /\ hpc[h] = "AddUserAdd"
    /\ LockFree(hreq[h].data[local[h].item].tag)
    /\ Lock(hreq[h].data[local[h].item].tag, h)
    /\ HGoto(h, "AddUserAddBody")
    /\ UNCHANGED <<otherVars, engineUsers, xtlsConfigInbounds, userInboundMap, hreq, local,
                   hresult>>

(* outcomes of the engine add of an item: none for a type the switch does    *)
(* not know, handler.go:189-216                                              *)
AddOutcomes(it) ==
    IF it.type = "vless" THEN {IF ok THEN "added" ELSE "failed" : ok \in EngineOutcomes}
    ELSE {"skipped"}

(* an answer that reports success only when no item failed *)
AddUserResultAll(successCount, n) == IF successCount = n THEN "success" ELSE "failed"

(* the answer of AddUser, handler.go:239-251 *)
AddUserResult(successCount, n) == IF successCount > 0 THEN "success" ELSE "failed"

(* a step 3 that keeps the lock of an item it skips *)
AddUserAddBodyKeepsLock(h) ==
    /\ hpc[h] = "AddUserAddBody"
    /\ LET it == hreq[h].data[local[h].item]
           last == local[h].item = Len(hreq[h].data)
       IN  \E out \in AddOutcomes(it) :
                LET n == local[h].successCount + (IF out = "added" THEN 1 ELSE 0)
                IN  /\ IF out = "skipped" THEN UNCHANGED inboundLocks ELSE Unlock(it.tag)
                    /\ engineUsers' = EngineAddUser(hreq[h].hashData.vlessUuid, it.tag,
                                                      out = "added")
                    /\ userInboundMap' =
                           IF out = "added"
                           THEN AddUserToInbound(hreq[h].hashData.vlessUuid, it.tag)
                           ELSE userInboundMap
                    /\ local' = [local EXCEPT ![h].successCount = n,
                                              ![h].item = @ + 1,
                                              ![h].log = Append(@, <<out, it.tag>>)]
                    /\ IF last
                       THEN HReturn(h, "AddUser", AddUserResult(n, Len(hreq[h].data)))
                                /\ HGoto(h, "AddUserRet")
                       ELSE HGoto(h, "AddUserAdd") /\ UNCHANGED hresult
    /\ UNCHANGED <<otherVars, xtlsConfigInbounds, hreq>>

(* step 3 under the lock: an item of unknown type is skipped; otherwise the  *)
(* engine add and, when it succeeds, AddUserToInbound; then unlock; after    *)
(* the last item the answer, handler.go:187-251                              *)
AddUserAddBody(h) ==
    /\ hpc[h] = "AddUserAddBody"
    /\ LET it == hreq[h].data[local[h].item]
           last == local[h].item = Len(hreq[h].data)
       IN  /\ Unlock(it.tag)
           /\ \E out \in AddOutcomes(it) :
                LET n == local[h].successCount + (IF out = "added" THEN 1 ELSE 0)
                IN  /\ engineUsers' = EngineAddUser(hreq[h].hashData.vlessUuid, it.tag,
                                                      out = "added")
                    /\ userInboundMap' =
                           IF out = "added"
                           THEN AddUserToInbound(hreq[h].hashData.vlessUuid, it.tag)
                           ELSE userInboundMap
                    /\ local' = [local EXCEPT ![h].successCount = n,
                                              ![h].item = @ + 1,
                                              ![h].log = Append(@, <<out, it.tag>>)]
                    /\ IF last
                       THEN HReturn(h, "AddUser", AddUserResult(n, Len(hreq[h].data)))
                                /\ HGoto(h, "AddUserRet")
                       ELSE HGoto(h, "AddUserAdd") /\ UNCHANGED hresult
    /\ UNCHANGED <<otherVars, xtlsConfigInbounds, hreq>>

(* ----------------------- HandlerService.AddUsers ---------------------- *)
AddUsersBegin(h, r) ==
    /\ hpc[h] = "idle"
    /\ hreq' = [hreq EXCEPT ![h] = r]
    /\ IF ~running
       THEN HReturn(h, "AddUsers", "notRunning") /\ HGoto(h, "AddUsersRet")
                /\ UNCHANGED local
       ELSE /\ HReturn(h, "AddUsers", "pending")
            /\ HGoto(h, "AddUsersTrack")
            /\ local' = [local EXCEPT ![h].item = 1, ![h].user = 1]
    /\ UNCHANGED <<otherVars, engineUsers, xtlsConfigInbounds, userInboundMap, inboundLocks>>

(* an answer that reports success only when some engine add succeeded *)
AddUsersResultCounted(adds) ==
    IF \E i \in 1..Len(adds) : adds[i][1] = "added" THEN "success" ELSE "failed"

(* the answer of AddUsers, whatever the engine calls returned, handler.go:390 *)
AddUsersResult(adds) == "success"

(* where AddUsers goes when it turns to the user at index u, handler.go:323 *)
AddUsersNext(h, u) ==
    IF u > Len(hreq[h].users) THEN "AddUsersRet" ELSE "AddUsersSnapshot"

(* one AddXtlsConfigInbound per affected tag, handler.go:314-317 *)
AddUsersTrack(h) ==
    /\ hpc[h] = "AddUsersTrack"
    /\ LET tags == hreq[h].affectedInboundTags
       IN  /\ xtlsConfigInbounds' =
                  IF local[h].item <= Len(tags)
                  THEN AddXtlsConfigInbound(tags[local[h].item])
                  ELSE xtlsConfigInbounds
           /\ IF local[h].item < Len(tags)
              THEN local' = [local EXCEPT ![h].item = @ + 1] /\ UNCHANGED <<hpc, hresult>>
              ELSE /\ local' = [local EXCEPT ![h].item = 1]
                   /\ HGoto(h, AddUsersNext(h, 1))
                   /\ IF AddUsersNext(h, 1) = "AddUsersRet"
                      THEN HReturn(h, "AddUsers", AddUsersResult(local'[h].log))
                      ELSE UNCHANGED hresult
    /\ UNCHANGED <<otherVars, engineUsers, userInboundMap, inboundLocks, hreq>>

(* where AddUsers goes once the user at index u has no item left: to the    *)
(* next user, or to the answer, which is success whatever happened,          *)
(* handler.go:337, 386-390                                                   *)
AddUsersAfterUser(h, u) ==
    /\ HGoto(h, AddUsersNext(h, u + 1))
    /\ IF AddUsersNext(h, u + 1) = "AddUsersRet"
       THEN HReturn(h, "AddUsers", AddUsersResult(local'[h].log))
       ELSE UNCHANGED hresult

(* allTags := GetXtlsConfigInbounds() for the next user, handler.go:325 *)
AddUsersSnapshot(h) ==
    /\ hpc[h] = "AddUsersSnapshot"
    /\ IF GetXtlsConfigInbounds = {}
             /\ Len(hreq[h].users[local[h].user].inboundData) = 0
       THEN /\ local' = [local EXCEPT ![h].user = @ + 1]
            /\ AddUsersAfterUser(h, local[h].user)
       ELSE /\ local' = [local EXCEPT ![h].allTags = GetXtlsConfigInbounds,
                                      ![h].todo = GetXtlsConfigInbounds,
                                      ![h].item = 1]
            /\ HGoto(h, IF GetXtlsConfigInbounds = {} THEN "AddUsersAdd"
                        ELSE "AddUsersRemove")
            /\ UNCHANGED hresult
    /\ UNCHANGED <<otherVars, engineUsers, xtlsConfigInbounds, userInboundMap, inboundLocks, hreq>>

AddUsersRemoveLock(h) ==
    /\ hpc[h] = "AddUsersRemove"
    /\ \E tag \in local[h].todo :
        /\ LockFree(tag)
        /\ Lock(tag, h)
    /\ HGoto(h, "AddUsersRemoveBody")
    /\ UNCHANGED <<otherVars, engineUsers, xtlsConfigInbounds, userInboundMap, hreq, local,
                   hresult>>

(* engine removal (result ignored) and tracker removal of the user's        *)
(* hashUuid, handler.go:330-333                                              *)
AddUsersRemoveBody(h) ==
    /\ hpc[h] = "AddUsersRemoveBody"
    /\ LET tag == HeldTag(h)
           rest == local[h].todo \ {tag}
           u == hreq[h].users[local[h].user]
       IN  /\ \E ok \in EngineOutcomes :
                engineUsers' = EngineRemoveUser(u.vlessUuid, tag, ok)
           /\ userInboundMap' = RemoveUserFromInbound(u.hashUuid, tag)
           /\ Unlock(tag)
           /\ IF rest = {} /\ Len(u.inboundData) = 0
              THEN /\ local' = [local EXCEPT ![h].todo = rest, ![h].user = @ + 1,
                                   ![h].log = Append(@, <<"remove", tag>>)]
                   /\ AddUsersAfterUser(h, local[h].user)
              ELSE /\ local' = [local EXCEPT ![h].todo = rest,
                                   ![h].log = Append(@, <<"remove", tag>>)]
                   /\ HGoto(h, IF rest = {} THEN "AddUsersAdd" ELSE "AddUsersRemove")
                   /\ UNCHANGED hresult
    /\ UNCHANGED <<otherVars, xtlsConfigInbounds, hreq>>

AddUsersAddLock(h) ==
    /\ hpc[h] = "AddUsersAdd"
    /\ LET it == hreq[h].users[local[h].user].inboundData[local[h].item]
       IN  LockFree(it.tag) /\ Lock(it.tag, h)
    /\ HGoto(h, "AddUsersAddBody")
    /\ UNCHANGED <<otherVars, engineUsers, xtlsConfigInbounds, userInboundMap, hreq, local,
                   hresult>>

(* the engine add of one item of the user and, when it succeeds,            *)
(* AddUserToInbound of the user's vlessUuid, handler.go:341-385              *)
AddUsersAddBody(h) ==
    /\ hpc[h] = "AddUsersAddBody"
    /\ LET u == hreq[h].users[local[h].user]
           it == u.inboundData[local[h].item]
           last == local[h].item = Len(u.inboundData)
       IN  /\ Unlock(it.tag)
           /\ \E out \in AddOutcomes(it) :
                /\ engineUsers' = EngineAddUser(u.vlessUuid, it.tag, out = "added")
                /\ userInboundMap' =
                       IF out = "added" THEN AddUserToInbound(u.vlessUuid, it.tag)
                       ELSE userInboundMap
                /\ IF last
                   THEN /\ local' = [local EXCEPT ![h].user = @ + 1, ![h].item = 1,
                                        ![h].log = Append(@, <<out, it.tag>>)]
                        /\ AddUsersAfterUser(h, local[h].user)
                   ELSE /\ local' = [local EXCEPT ![h].item = @ + 1,
                                        ![h].log = Append(@, <<out, it.tag>>)]
                        /\ HGoto(h, "AddUsersAdd")
                        /\ UNCHANGED hresult
    /\ UNCHANGED <<otherVars, xtlsConfigInbounds, hreq>>

(* ---------------------- HandlerService.RemoveUser --------------------- *)
RemoveUserBegin(h, r) ==
    /\ hpc[h] = "idle"
    /\ hreq' = [hreq EXCEPT ![h] = r]
    /\ IF ~running
       THEN HReturn(h, "RemoveUser", "notRunning") /\ HGoto(h, "RemoveUserRet")
                /\ UNCHANGED local
       ELSE /\ HReturn(h, "RemoveUser", "pending")
            /\ HGoto(h, "RemoveUserSnapshot")
            /\ local' = [local EXCEPT ![h].before = Membership(r.vlessUuid),
                                      ![h].agreed = TrackerAgrees]
    /\ UNCHANGED <<otherVars, engineUsers, xtlsConfigInbounds, userInboundMap, inboundLocks>>

(* allTags := GetXtlsConfigInbounds(); success at once when there is none,  *)
(* handler.go:419-422                                                       *)
RemoveUserSnapshot(h) ==
    /\ hpc[h] = "RemoveUserSnapshot"
    /\ local' = [local EXCEPT ![h].allTags = GetXtlsConfigInbounds,
                              ![h].todo = GetXtlsConfigInbounds]
    /\ IF GetXtlsConfigInbounds = {}
       THEN HReturn(h, "RemoveUser", "success") /\ HGoto(h, "RemoveUserRet")
       ELSE HGoto(h, "RemoveUserRemove") /\ UNCHANGED hresult
    /\ UNCHANGED <<otherVars, engineUsers, xtlsConfigInbounds, userInboundMap, inboundLocks, hreq>>

RemoveUserLock(h) ==
    /\ hpc[h] = "RemoveUserRemove"
    /\ \E tag \in local[h].todo :
        /\ LockFree(tag)
        /\ Lock(tag, h)
    /\ HGoto(h, "RemoveUserBody")
    /\ UNCHANGED <<otherVars, engineUsers, xtlsConfigInbounds, userInboundMap, hreq, local,
                   hresult>>

(* an answer that reports failure as soon as one removal failed *)
RemoveResultAny(successCount, failCount) ==
    IF failCount > 0 THEN "failed" ELSE "success"

(* the answer of RemoveUser and RemoveUsers, handler.go:453-462, 531-540 *)
RemoveResult(successCount, failCount) ==
    IF successCount = 0 /\ failCount > 0 THEN "failed" ELSE "success"

(* under the lock: the engine removal, counted, and the tracker removal;    *)
(* after the last tag the answer, handler.go:437-462                        *)
RemoveUserBody(h) ==
    /\ hpc[h] = "RemoveUserBody"
    /\ LET tag == HeldTag(h)
           rest == local[h].todo \ {tag}
       IN  /\ userInboundMap' = RemoveUserFromInbound(hreq[h].vlessUuid, tag)
           /\ Unlock(tag)
           /\ \E ok \in EngineOutcomes :
                LET sc == local[h].successCount + (IF ok THEN 1 ELSE 0)
                    fc == local[h].failCount + (IF ok THEN 0 ELSE 1)
                IN  /\ engineUsers' = EngineRemoveUser(hreq[h].vlessUuid, tag, ok)
                    /\ local' = [local EXCEPT ![h].todo = rest,
                                   ![h].successCount = sc, ![h].failCount = fc,
                                   ![h].log = Append(@, <<IF ok THEN "removed"
                                                          ELSE "removeFailed", tag>>)]
                    /\ IF rest = {}
                       THEN HReturn(h, "RemoveUser", RemoveResult(sc, fc))
                                /\ HGoto(h, "RemoveUserRet")
                       ELSE HGoto(h, "RemoveUserRemove") /\ UNCHANGED hresult
    /\ UNCHANGED <<otherVars, xtlsConfigInbounds, hreq>>

(* ---------------------- HandlerService.RemoveUsers -------------------- *)
RemoveUsersBegin(h, r) ==
    /\ hpc[h] = "idle"
    /\ hreq' = [hreq EXCEPT ![h] = r]
    /\ IF ~running
       THEN HReturn(h, "RemoveUsers", "notRunning") /\ HGoto(h, "RemoveUsersRet")
       ELSE HReturn(h, "RemoveUsers", "pending") /\ HGoto(h, "RemoveUsersSnapshot")
    /\ UNCHANGED <<otherVars, engineUsers, xtlsConfigInbounds, userInboundMap, inboundLocks, local>>

(* allTags := GetXtlsConfigInbounds(), once for the whole batch; success at *)
(* once when there is no tag or no user, handler.go:491-494, 504             *)
RemoveUsersSnapshot(h) ==
    /\ hpc[h] = "RemoveUsersSnapshot"
    /\ local' = [local EXCEPT ![h].allTags = GetXtlsConfigInbounds,
                              ![h].todo = GetXtlsConfigInbounds,
                              ![h].user = 1]
    /\ IF GetXtlsConfigInbounds = {} \/ Len(hreq[h].users) = 0
       THEN HReturn(h, "RemoveUsers", "success") /\ HGoto(h, "RemoveUsersRet")
       ELSE HGoto(h, "RemoveUsersRemove") /\ UNCHANGED hresult
    /\ UNCHANGED <<otherVars, engineUsers, xtlsConfigInbounds, userInboundMap, inboundLocks, hreq>>

RemoveUsersLock(h) ==
    /\ hpc[h] = "RemoveUsersRemove"
    /\ \E tag \in local[h].todo :
        /\ LockFree(tag)
        /\ Lock(tag, h)
    /\ HGoto(h, "RemoveUsersBody")
    /\ UNCHANGED <<otherVars, engineUsers, xtlsConfigInbounds, userInboundMap, hreq, local,
                   hresult>>

(* under the lock: the engine removal, counted, and the tracker removal of  *)
(* the user's hashUuid; after the last tag of the last user the answer,     *)
(* handler.go:504-540                                                       *)
RemoveUsersBody(h) ==
    /\ hpc[h] = "RemoveUsersBody"
    /\ LET tag == HeldTag(h)
           rest == local[h].todo \ {tag}
           lastUser == local[h].user = Len(hreq[h].users)
       IN  /\ userInboundMap' = RemoveUserFromInbound(hreq[h].users[local[h].user], tag)
           /\ Unlock(tag)
           /\ \E ok \in EngineOutcomes :
                LET sc == local[h].successCount + (IF ok THEN 1 ELSE 0)
                    fc == local[h].failCount + (IF ok THEN 0 ELSE 1)
                    e == <<IF ok THEN "removed" ELSE "removeFailed", tag>>
                IN  /\ engineUsers' =
                           EngineRemoveUser(hreq[h].users[local[h].user], tag, ok)
                    /\ IF rest = {} /\ lastUser
                       THEN /\ local' = [local EXCEPT ![h].todo = rest,
                                           ![h].successCount = sc, ![h].failCount = fc,
                                           ![h].log = Append(@, e)]
                            /\ HReturn(h, "RemoveUsers", RemoveResult(sc, fc))
                            /\ HGoto(h, "RemoveUsersRet")
                       ELSE /\ local' = [local EXCEPT
                                           ![h].todo = IF rest = {} THEN local[h].allTags
                                                       ELSE rest,
                                           ![h].user = IF rest = {} THEN @ + 1 ELSE @,
                                           ![h].successCount = sc, ![h].failCount = fc,
                                           ![h].log = Append(@, e)]
                            /\ HGoto(h, "RemoveUsersRemove")
                            /\ UNCHANGED hresult
    /\ UNCHANGED <<otherVars, xtlsConfigInbounds, hreq>>

(* ------------------ HandlerService.GetInboundUsersCount ---------------- *)
(* a hard error with count 0 when the engine does not run, else the count  *)
(* of the tracker, handler.go:587-600                                       *)
GetInboundUsersCount(h, tag) ==
    /\ hpc[h] = "idle"
    /\ hreq' = [hreq EXCEPT ![h] = [op |-> "GetInboundUsersCount", tag |-> tag]]
    /\ IF ~running
       THEN /\ HReturn(h, "GetInboundUsersCount", "hardError")
            /\ local' = [local EXCEPT ![h].count = 0]
       ELSE /\ HReturn(h, "GetInboundUsersCount", "count")
            /\ local' = [local EXCEPT ![h].count = GetUsersCountInInbound(tag)]
    /\ HGoto(h, "GetInboundUsersCountRet")
    /\ UNCHANGED <<otherVars, engineUsers, xtlsConfigInbounds, userInboundMap,
                   inboundLocks>>

(* ------------------------- return of a user call ---------------------- *)
RetPcs == {"AddUserRet", "AddUsersRet", "RemoveUserRet", "RemoveUsersRet",
           "GetInboundUsersCountRet"}
HandlerReturn(h) ==
    /\ hpc[h] \in RetPcs
    /\ HGoto(h, "idle")
    /\ hreq' = [hreq EXCEPT ![h] = NoUserReq]
    /\ local' = [local EXCEPT ![h] = NoLocal]
    /\ hresult' = [hresult EXCEPT ![h] = NoResult]
    /\ UNCHANGED <<xrayVars, procVars, internalVars, running, engineUsers,
                   inboundLocks, sideVars>>

(* the steps of the user calls of h, with requests from the given sets *)
AddUserCall(h, AR) ==
    \/ \E r \in AR : AddUserBegin(h, r)
    \/ AddUserTrack(h)
    \/ AddUserSnapshot(h)
    \/ AddUserRemoveLock(h)
    \/ AddUserRemoveBody(h)
    \/ AddUserAddLock(h)
    \/ AddUserAddBody(h)

AddUsersCall(h, ABR) ==
    \/ \E r \in ABR : AddUsersBegin(h, r)
    \/ AddUsersTrack(h)
    \/ AddUsersSnapshot(h)
    \/ AddUsersRemoveLock(h)
    \/ AddUsersRemoveBody(h)
    \/ AddUsersAddLock(h)
    \/ AddUsersAddBody(h)

RemoveUserCall(h, RR) ==
    \/ \E r \in RR : RemoveUserBegin(h, r)
    \/ RemoveUserSnapshot(h)
    \/ RemoveUserLock(h)
    \/ RemoveUserBody(h)

RemoveUsersCall(h, RBR) ==
    \/ \E r \in RBR : RemoveUsersBegin(h, r)
    \/ RemoveUsersSnapshot(h)
    \/ RemoveUsersLock(h)
    \/ RemoveUsersBody(h)

(* ------------------------------ the system ---------------------------- *)
(* the steps of the Start calls that passed the guard, with requests from SR *)
StartCall(p, SR) ==
    \/ \E r \in SR : StartBegin(p, r)
    \/ StartLock(p)
    \/ StartDecide(p)
    \/ StartWrite(p)
    \/ StartExtract(p)
    \/ StartProcess(p)
    \/ StartVerify(p)
    \/ StartUnlock(p)
    \/ StartRelease(p)

StopCall(p) ==
    \/ StopLock(p)
    \/ StopProcess(p)
    \/ StopCleanup(p)
    \/ StopUnlock(p)

RestartCall(p, RR) ==
    \/ \E r \in RR : RestartBegin(p, r)
    \/ RestartLock(p)
    \/ RestartDecide(p)
    \/ RestartWrite(p)
    \/ RestartExtract(p)
    \/ RestartProcess(p)
    \/ RestartVerify(p)
    \/ RestartUnlock(p)
    \/ RestartRelease(p)

(* the steps of the calls that passed the guard, with requests from SR and RR *)
Lifecycle(p, SR, RR) ==
    \/ StartCall(p, SR)
    \/ StopCall(p)
    \/ RestartCall(p, RR)

(* concurrent callers *)
Next ==
    \E p \in Procs :
        \/ Lifecycle(p, ConcStartRequest, ConcRestartRequest)
        \/ StartRejected(p)
        \/ RestartRejected(p)

Spec == Init /\ [][Next]_vars

(* one caller issuing its calls one after the other *)
NextSeq == Lifecycle(1, StartRequest, RestartRequest)

SpecSeq == Init /\ [][NextSeq]_vars

(* the user calls of one caller next to the Start and Stop calls of another *)
(* and to the start of the engine instance                                  *)
NextUsers ==
    \/ InstanceStart
    \/ AddUserCall(1, ConcAddUserRequest)
    \/ AddUsersCall(1, ConcAddUsersRequest)
    \/ RemoveUserCall(1, ConcRemoveUserRequest)
    \/ RemoveUsersCall(1, ConcRemoveUsersRequest)
    \/ HandlerReturn(1)
    \/ StartCall(1, UsersStartRequest)
    \/ StopCall(1)

SpecUsers == Init /\ [][NextUsers]_vars

(* AddUser, RemoveUser, RemoveUsers and GetInboundUsersCount calls of one   *)
(* caller, one after the other                                              *)
NextUsersSeq ==
    \/ InstanceStart
    \/ InstanceStop
    \/ AddUserCall(1, AddUserRequest)
    \/ RemoveUserCall(1, RemoveUserRequest)
    \/ RemoveUsersCall(1, RemoveUsersRequest)
    \/ \E tag \in Tags : GetInboundUsersCount(1, tag)
    \/ HandlerReturn(1)

SpecUsersSeq == Init /\ [][NextUsersSeq]_vars

(* AddUser and RemoveUser calls of one caller, one after the other, on an   *)
(* engine instance that keeps running once it has started                   *)
NextEngine ==
    \/ InstanceStart
    \/ AddUserCall(1, EngineAddUserRequest)
    \/ RemoveUserCall(1, EngineRemoveUserRequest)
    \/ HandlerReturn(1)

SpecEngine == Init /\ [][NextEngine]_vars

(* AddUser calls of two callers for one identity, side by side, the first  *)
(* caller's with target A and the second's with target B                   *)
PairAddUserRequest(tag) == {r \in ConcAddUserRequest : r.data[1].tag = tag}
NextAddUserPair ==
    \/ InstanceStart
    \/ AddUserCall(1, PairAddUserRequest("A"))
    \/ AddUserCall(2, PairAddUserRequest("B"))
    \/ HandlerReturn(1)
    \/ HandlerReturn(2)

SpecAddUserPair == Init /\ [][NextAddUserPair]_vars

(* the four user calls of one caller, one after the other, with items of    *)
(* known and unknown type, on an engine instance that starts and stops      *)
LockAddUserRequest == {r \in AddUserRequest : r.hashData = HashData("u1", "")}
LockAddUsersRequest == {r \in AddUsersRequest : r.affectedInboundTags = <<"A", "B">>}
NextUserLocks ==
    \/ InstanceStart
    \/ InstanceStop
    \/ AddUserCall(1, LockAddUserRequest)
    \/ AddUsersCall(1, LockAddUsersRequest)
    \/ RemoveUserCall(1, ConcRemoveUserRequest)
    \/ RemoveUsersCall(1, ConcRemoveUsersRequest)
    \/ HandlerReturn(1)

SpecUserLocks == Init /\ [][NextUserLocks]_vars

(* ============================ VisionService =========================== *)
visionOther == <<xrayVars, internalVars, procVars, running, engineUsers, handlerVars, pkgVars,
                registryVars, healthVars>>

(* xtls.Client.Connect and Close, by whoever holds the client *)
ClientConnect ==
    /\ ~conn
    /\ conn' = TRUE
    /\ UNCHANGED <<routerRules, visionMu, blockedIPs, vpc, vreq, vlocal, vresult, visionOther>>
ClientClose ==
    /\ conn
    /\ conn' = FALSE
    /\ UNCHANGED <<routerRules, visionMu, blockedIPs, vpc, vreq, vlocal, vresult, visionOther>>

(* Client.Router: nil without a connection, else a wrapper that holds the   *)
(* connection and the logger; its client field is not set                   *)
NilRouter == [nil |-> TRUE, client |-> FALSE]
Router == IF ~conn THEN NilRouter ELSE [nil |-> FALSE, client |-> FALSE]

(* outcomes of RouterServiceClient.AddRule and RemoveRule: TRUE for a nil   *)
(* error; an error at once when the wrapper has no client                   *)
RouterOutcomes(router) == IF ~router.client THEN {FALSE} ELSE BOOLEAN

(* getIPHash: the MD5 of the IP, in hex *)
getIPHash(ip) == IF ip = "ip1" THEN "md5-ip1" ELSE "md5-ip2"

VGoto(v, l) == vpc' = [vpc EXCEPT ![v] = l]
VReturn(v, success) == vresult' = [vresult EXCEPT ![v] = BlockIPResponse(success)]

(* a BlockIP or UnblockIP call arrives *)
BlockIPBegin(v, r) ==
    /\ vpc[v] = "idle"
    /\ vreq' = [vreq EXCEPT ![v] = r]
    /\ vlocal' = [vlocal EXCEPT ![v] = NoVisionLocal]
    /\ vresult' = [vresult EXCEPT ![v] = NoVisionResult]
    /\ VGoto(v, "BlockIPLock")
    /\ UNCHANGED <<conn, routerRules, visionMu, blockedIPs, visionOther>>
UnblockIPBegin(v, r) ==
    /\ vpc[v] = "idle"
    /\ vreq' = [vreq EXCEPT ![v] = r]
    /\ vlocal' = [vlocal EXCEPT ![v] = NoVisionLocal]
    /\ vresult' = [vresult EXCEPT ![v] = NoVisionResult]
    /\ VGoto(v, "UnblockIPLock")
    /\ UNCHANGED <<conn, routerRules, visionMu, blockedIPs, visionOther>>

(* s.mu.Lock() *)
VisionLock(v) ==
    /\ vpc[v] \in {"BlockIPLock", "UnblockIPLock"}
    /\ visionMu = 0
    /\ visionMu' = v
    /\ VGoto(v, IF vpc[v] = "BlockIPLock" THEN "BlockIP" ELSE "UnblockIP")
    /\ UNCHANGED <<conn, routerRules, blockedIPs, vreq, vlocal, vresult, visionOther>>

(* BlockIP that does not look whether the IP is already blocked *)
BlockIPNoCheck(v) ==
    /\ vpc[v] = "BlockIP"
    /\ LET ip == vreq[v].ip
           exists == ip \in DOMAIN blockedIPs
           ruleTag == getIPHash(ip)
           router == Router
       IN  IF router.nil
           THEN /\ vlocal' = [vlocal EXCEPT ![v] = [exists |-> exists, calls |-> <<>>]]
                /\ blockedIPs' = [x \in DOMAIN blockedIPs \cup {ip} |->
                                     IF x = ip THEN ruleTag ELSE blockedIPs[x]]
                /\ VReturn(v, TRUE)
                /\ UNCHANGED routerRules
           ELSE \E ok \in RouterOutcomes(router) :
                /\ vlocal' = [vlocal EXCEPT ![v] =
                                 [exists |-> exists, calls |-> <<"AddRule">>]]
                /\ routerRules' = IF ok THEN routerRules \cup {ruleTag} ELSE routerRules
                /\ blockedIPs' = IF ok
                                  THEN [x \in DOMAIN blockedIPs \cup {ip} |->
                                           IF x = ip THEN ruleTag ELSE blockedIPs[x]]
                                  ELSE blockedIPs
                /\ VReturn(v, ok)
    /\ VGoto(v, "VisionUnlock")
    /\ UNCHANGED <<conn, visionMu, vreq, visionOther>>

(* VisionService.BlockIP, the body under the mutex (vision.go:66-96) *)
BlockIP(v) ==
    /\ vpc[v] = "BlockIP"
    /\ LET ip == vreq[v].ip
           exists == ip \in DOMAIN blockedIPs
           ruleTag == getIPHash(ip)
           router == Router
       IN  IF exists
           THEN /\ vlocal' = [vlocal EXCEPT ![v] = [exists |-> TRUE, calls |-> <<>>]]
                /\ VReturn(v, TRUE)
                /\ UNCHANGED <<routerRules, blockedIPs>>
           ELSE IF router.nil
           THEN /\ vlocal' = [vlocal EXCEPT ![v] = [exists |-> FALSE, calls |-> <<>>]]
                /\ blockedIPs' = [x \in DOMAIN blockedIPs \cup {ip} |->
                                     IF x = ip THEN ruleTag ELSE blockedIPs[x]]
                /\ VReturn(v, TRUE)
                /\ UNCHANGED routerRules
           ELSE \E ok \in RouterOutcomes(router) :
                /\ vlocal' = [vlocal EXCEPT ![v] =
                                 [exists |-> FALSE, calls |-> <<"AddRule">>]]
                /\ routerRules' = IF ok THEN routerRules \cup {ruleTag} ELSE routerRules
                /\ blockedIPs' = IF ok
                                  THEN [x \in DOMAIN blockedIPs \cup {ip} |->
                                           IF x = ip THEN ruleTag ELSE blockedIPs[x]]
                                  ELSE blockedIPs
                /\ VReturn(v, ok)
    /\ VGoto(v, "VisionUnlock")
    /\ UNCHANGED <<conn, visionMu, vreq, visionOther>>

(* VisionService.UnblockIP, the body under the mutex (vision.go:114-145) *)
UnblockIP(v) ==
    /\ vpc[v] = "UnblockIP"
    /\ LET ip == vreq[v].ip
           exists == ip \in DOMAIN blockedIPs
           router == Router
       IN  IF ~exists
           THEN /\ vlocal' = [vlocal EXCEPT ![v] = [exists |-> FALSE, calls |-> <<>>]]
                /\ VReturn(v, TRUE)
                /\ UNCHANGED <<routerRules, blockedIPs>>
           ELSE IF router.nil
           THEN /\ vlocal' = [vlocal EXCEPT ![v] = [exists |-> TRUE, calls |-> <<>>]]
                /\ blockedIPs' = [x \in DOMAIN blockedIPs \ {ip} |-> blockedIPs[x]]
                /\ VReturn(v, TRUE)
                /\ UNCHANGED routerRules
           ELSE \E ok \in RouterOutcomes(router) :
                /\ vlocal' = [vlocal EXCEPT ![v] =
                                 [exists |-> TRUE, calls |-> <<"RemoveRule">>]]
                /\ routerRules' = IF ok THEN routerRules \ {blockedIPs[ip]}
                                   ELSE routerRules
                /\ blockedIPs' = IF ok
                                  THEN [x \in DOMAIN blockedIPs \ {ip} |-> blockedIPs[x]]
                                  ELSE blockedIPs
                /\ VReturn(v, ok)
    /\ VGoto(v, "VisionUnlock")
    /\ UNCHANGED <<conn, visionMu, vreq, visionOther>>

(* the deferred s.mu.Unlock() *)
VisionUnlock(v) ==
    /\ vpc[v] = "VisionUnlock"
    /\ visionMu' = 0
    /\ VGoto(v, "VisionRet")
    /\ UNCHANGED <<conn, routerRules, blockedIPs, vreq, vlocal, vresult, visionOther>>

(* the response goes out (routes.go:415-448) *)
VisionReturn(v) ==
    /\ vpc[v] = "VisionRet"
    /\ VGoto(v, "idle")
    /\ UNCHANGED <<conn, routerRules, visionMu, blockedIPs, vreq, vlocal, vresult,
                   visionOther>>

(* BlockIP and UnblockIP calls of the callers, next to connects and closes *)
(* of the xtls client                                                      *)
NextVision ==
    \/ ClientConnect
    \/ ClientClose
    \/ \E v \in VProcs : \E r \in BlockIPRequest : BlockIPBegin(v, r)
    \/ \E v \in VProcs : \E r \in UnblockIPRequest : UnblockIPBegin(v, r)
    \/ \E v \in VProcs : VisionLock(v)
    \/ \E v \in VProcs : BlockIP(v)
    \/ \E v \in VProcs : UnblockIP(v)
    \/ \E v \in VProcs : VisionUnlock(v)
    \/ \E v \in VProcs : VisionReturn(v)

SpecVision == Init /\ [][NextVision]_vars

(* ============================== HashedSet ============================= *)
hsOther == <<xrayVars, internalVars, procVars, running, engineUsers, handlerVars,
             visionVars, secretKey, payload, registryVars, healthVars>>

(* json.Marshal and sha256.Sum256 in hex *)
Marshal(data) ==
    IF data = "bad" THEN [json |-> "", err |-> TRUE]
    ELSE [json |-> IF data = "d2" THEN "json-d2" ELSE "json-d1", err |-> FALSE]
Sum256(json) == IF json = "json-d1" THEN "sha-1" ELSE "sha-2"

(* computeHash *)
computeHash(data) ==
    LET m == Marshal(data)
    IN  IF m.err THEN [hash |-> "", err |-> TRUE]
        ELSE [hash |-> Sum256(m.json), err |-> FALSE]

(* what HashedSet.HasChanged returns *)
HasChanged(key, data) ==
    LET c == computeHash(data)
    IN  IF c.err THEN [ret |-> FALSE, err |-> TRUE]
        ELSE IF key \notin DOMAIN hsHashes THEN [ret |-> TRUE, err |-> FALSE]
        ELSE [ret |-> hsHashes[key] # c.hash, err |-> FALSE]

Stored(key, hash) ==
    [k \in DOMAIN hsHashes \cup {key} |-> IF k = key THEN hash ELSE hsHashes[k]]

(* a HashedSet.HasChanged call *)
HasChangedCall(key, data) ==
    /\ hsCall' = HsCall("HasChanged", key, data, HasChanged(key, data), FALSE)
    /\ UNCHANGED <<hsHashes, hsOther>>

(* HashedSet.SetHash *)
SetHash(key, data) ==
    LET c == computeHash(data)
    IN  /\ hsHashes' = IF c.err THEN hsHashes ELSE Stored(key, c.hash)
        /\ hsCall' = HsCall("SetHash", key, data, [ret |-> FALSE, err |-> c.err], FALSE)
        /\ UNCHANGED hsOther

(* UpdateIfChanged that reports the change without storing the hash *)
UpdateIfChangedNoStore(key, data) ==
    LET c == computeHash(data)
        changed == ~c.err /\ (key \notin DOMAIN hsHashes \/ hsHashes[key] # c.hash)
    IN  /\ UNCHANGED hsHashes
        /\ hsCall' = HsCall("UpdateIfChanged", key, data,
                            [ret |-> changed, err |-> c.err], HasChanged(key, data).ret)
        /\ UNCHANGED hsOther

(* HashedSet.UpdateIfChanged; before is what HasChanged returns for the    *)
(* same key and data in the state the call starts in                       *)
UpdateIfChanged(key, data) ==
    LET c == computeHash(data)
        changed == ~c.err /\ (key \notin DOMAIN hsHashes \/ hsHashes[key] # c.hash)
    IN  /\ hsHashes' = IF changed THEN Stored(key, c.hash) ELSE hsHashes
        /\ hsCall' = HsCall("UpdateIfChanged", key, data,
                            [ret |-> changed, err |-> c.err], HasChanged(key, data).ret)
        /\ UNCHANGED hsOther

(* HashedSet.Delete *)
Delete(key) ==
    /\ hsHashes' = [k \in DOMAIN hsHashes \ {key} |-> hsHashes[k]]
    /\ hsCall' = HsCall("Delete", key, "d1", [ret |-> FALSE, err |-> FALSE], FALSE)
    /\ UNCHANGED hsOther

(* calls on one HashedSet, one after the other *)
NextHashedSet ==
    \/ \E key \in HsKeys, data \in HsData : HasChangedCall(key, data)
    \/ \E key \in HsKeys, data \in HsData : SetHash(key, data)
    \/ \E key \in HsKeys, data \in HsData : UpdateIfChanged(key, data)
    \/ \E key \in HsKeys : Delete(key)

SpecHashedSet == Init /\ [][NextHashedSet]_vars

(* =========================== ParseNodePayload ========================= *)
(* base64.StdEncoding.DecodeString *)
DecodeString(key) ==
    IF key.kind = "base64" THEN [bytes |-> key.bytes, err |-> FALSE]
    ELSE [bytes |-> NotJson, err |-> TRUE]

(* json.Unmarshal into a NodePayload: a string member sets its field, an   *)
(* absent or null member leaves it empty, a number is a type error          *)
Unmarshal(bytes) ==
    IF bytes.kind # "json" THEN [payload |-> [f \in Fields |-> ""], err |-> TRUE]
    ELSE IF \E f \in Fields : bytes.object[f].form = "number"
         THEN [payload |-> [f \in Fields |-> ""], err |-> TRUE]
    ELSE [payload |-> [f \in Fields |->
                         IF bytes.object[f].form = "string"
                         THEN bytes.object[f].value ELSE ""],
          err |-> FALSE]

(* Validate that does not look at jwtPublicKey *)
ValidateNoJwt(p) ==
    IF p["caCertPem"] = "" THEN "caCertPem is required"
    ELSE IF p["nodeCertPem"] = "" THEN "nodeCertPem is required"
    ELSE IF p["nodeKeyPem"] = "" THEN "nodeKeyPem is required"
    ELSE ""

(* NodePayload.Validate: the error, "" for nil *)
Validate(p) ==
    IF p["caCertPem"] = "" THEN "caCertPem is required"
    ELSE IF p["nodeCertPem"] = "" THEN "nodeCertPem is required"
    ELSE IF p["nodeKeyPem"] = "" THEN "nodeKeyPem is required"
    ELSE IF p["jwtPublicKey"] = "" THEN "jwtPublicKey is required"
    ELSE ""

(* ParseNodePayload: the payload and the error, "" for nil *)
ParseNodePayload(key) ==
    IF key.kind = "empty" THEN [err |-> "SECRET_KEY is not set"]
    ELSE LET d == DecodeString(key)
         IN  IF d.err THEN [err |-> "failed to decode SECRET_KEY"]
             ELSE LET u == Unmarshal(d.bytes)
                  IN  IF u.err THEN [err |-> "SECRET_KEY contains invalid JSON"]
                      ELSE IF Validate(u.payload) # ""
                           THEN [err |-> "invalid SECRET_KEY payload"]
                           ELSE [err |-> "", payload |-> u.payload]

(* the ParseNodePayload call of the start-up, on the SECRET_KEY of the      *)
(* environment                                                             *)
ParseCall(key) ==
    /\ secretKey = NoSecretKey
    /\ secretKey' = key
    /\ payload' = ParseNodePayload(key)
    /\ UNCHANGED <<xrayVars, internalVars, procVars, running, engineUsers, handlerVars,
                   visionVars, hsHashes, hsCall, registryVars,
                   healthVars>>

NextPayload == \E key \in SecretKeys : ParseCall(key)

SpecPayload == Init /\ [][NextPayload]_vars

(* ------------------- HandlerService.getInboundLock -------------------- *)
(* the registry of per-tag locks, step by step: inboundMu is a read-write   *)
(* lock, lockOf the map s.inboundLocks, mutexes the lock objects it holds   *)
registryOther == <<xrayVars, internalVars, procVars, running, engineUsers, handlerVars,
                   visionVars, pkgVars, healthVars>>
GGoto(g, l) == gpc' = [gpc EXCEPT ![g] = l]

(* a user call reaches lock := s.getInboundLock(tag) *)
GetInboundLockCall(g, tag) ==
    /\ gpc[g] = "idle"
    /\ GGoto(g, "RLock")
    /\ glocal' = [glocal EXCEPT ![g] = [NoGetLocal EXCEPT !.tag = tag]]
    /\ UNCHANGED <<registryOther, inboundMu, lockOf, mutexes, created>>

(* s.inboundMu.RLock() *)
GetRLock(g) ==
    /\ gpc[g] = "RLock"
    /\ inboundMu.writer = 0
    /\ inboundMu' = [inboundMu EXCEPT !.readers = @ \cup {g}]
    /\ GGoto(g, "Read")
    /\ UNCHANGED <<registryOther, lockOf, mutexes, created, glocal>>

(* lock, exists := s.inboundLocks[tag]; RUnlock; return lock if it exists *)
GetRead(g) ==
    /\ gpc[g] = "Read"
    /\ LET tag == glocal[g].tag
           exists == tag \in DOMAIN lockOf
       IN /\ glocal' = [glocal EXCEPT ![g].exists = exists,
                                      ![g].lock = IF exists THEN lockOf[tag] ELSE 0]
          /\ GGoto(g, IF exists THEN "Lock" ELSE "WLock")
    /\ inboundMu' = [inboundMu EXCEPT !.readers = @ \ {g}]
    /\ UNCHANGED <<registryOther, lockOf, mutexes, created>>

(* s.inboundMu.Lock() *)
GetWLock(g) ==
    /\ gpc[g] = "WLock"
    /\ inboundMu.writer = 0
    /\ inboundMu.readers = {}
    /\ inboundMu' = [inboundMu EXCEPT !.writer = g]
    /\ GGoto(g, "Recheck")
    /\ UNCHANGED <<registryOther, lockOf, mutexes, created, glocal>>

(* a registry that makes the lock without the second look *)
GetRecheckSkipped(g) ==
    /\ gpc[g] = "Recheck"
    /\ GGoto(g, "Create")
    /\ UNCHANGED <<registryOther, inboundMu, lockOf, mutexes, created, glocal>>

(* the double check under the write lock; the deferred Unlock on return *)
GetRecheck(g) ==
    /\ gpc[g] = "Recheck"
    /\ LET tag == glocal[g].tag
           exists == tag \in DOMAIN lockOf
       IN IF exists
          THEN /\ glocal' = [glocal EXCEPT ![g].exists = TRUE, ![g].lock = lockOf[tag]]
               /\ inboundMu' = [inboundMu EXCEPT !.writer = 0]
               /\ GGoto(g, "Lock")
          ELSE /\ glocal' = [glocal EXCEPT ![g].exists = FALSE]
               /\ GGoto(g, "Create")
               /\ UNCHANGED inboundMu
    /\ UNCHANGED <<registryOther, lockOf, mutexes, created>>

(* lock = &sync.Mutex{}; s.inboundLocks[tag] = lock; return lock, with the  *)
(* deferred Unlock                                                         *)
GetCreate(g) ==
    /\ gpc[g] = "Create"
    /\ LET tag == glocal[g].tag
           lock == Len(mutexes) + 1
       IN /\ mutexes' = Append(mutexes, 0)
          /\ lockOf' = [t \in DOMAIN lockOf \cup {tag} |->
                            IF t = tag THEN lock ELSE lockOf[t]]
          /\ created' = [created EXCEPT ![tag] = @ \cup {lock}]
          /\ glocal' = [glocal EXCEPT ![g].lock = lock]
    /\ inboundMu' = [inboundMu EXCEPT !.writer = 0]
    /\ GGoto(g, "Lock")
    /\ UNCHANGED registryOther

(* lock.Lock() on the object getInboundLock returned *)
MutexLock(g) ==
    /\ gpc[g] = "Lock"
    /\ mutexes[glocal[g].lock] = 0
    /\ mutexes' = [mutexes EXCEPT ![glocal[g].lock] = g]
    /\ GGoto(g, "Held")
    /\ UNCHANGED <<registryOther, inboundMu, lockOf, created, glocal>>

(* lock.Unlock() at the end of the work on the tag *)
MutexUnlock(g) ==
    /\ gpc[g] = "Held"
    /\ mutexes' = [mutexes EXCEPT ![glocal[g].lock] = 0]
    /\ GGoto(g, "idle")
    /\ glocal' = [glocal EXCEPT ![g] = NoGetLocal]
    /\ UNCHANGED <<registryOther, inboundMu, lockOf, created>>

NextRegistry ==
    \/ \E g \in GProcs, tag \in Tags : GetInboundLockCall(g, tag)
    \/ \E g \in GProcs : GetRLock(g)
    \/ \E g \in GProcs : GetRead(g)
    \/ \E g \in GProcs : GetWLock(g)
    \/ \E g \in GProcs : GetRecheck(g)
    \/ \E g \in GProcs : GetCreate(g)
    \/ \E g \in GProcs : MutexLock(g)
    \/ \E g \in GProcs : MutexUnlock(g)

SpecRegistry == Init /\ [][NextRegistry]_vars

(* ---------------------- XrayService.checkXrayHealth ------------------- *)
(* the health check step by step, for one caller at a time (its callers     *)
(* hold s.mu)                                                              *)
healthOther == <<xrayVars, internalVars, procVars, running, engineUsers, handlerVars,
                 routerRules, visionMu, blockedIPs, vpc, vreq, vlocal, vresult, pkgVars,
                 registryVars>>

(* Client.Stats: nil without a connection *)
Stats == IF conn THEN "stats" ELSE "nil"

(* the call, with a context that has not fired; false at once when Stats()  *)
(* is nil; otherwise attempt := 1                                           *)
checkXrayHealthBegin(site) ==
    /\ health.pc = "idle"
    /\ ctxDone' = FALSE
    /\ health' = IF Stats = "nil"
                 THEN [NoHealth EXCEPT !.pc = "Ret", !.site = site, !.stats = Stats]
                 ELSE [NoHealth EXCEPT !.pc = "Probe", !.site = site, !.stats = Stats,
                                       !.attempt = 1]
    /\ UNCHANGED <<healthOther, conn>>

(* the caller's context is cancelled, or its deadline passes *)
CtxCancel ==
    /\ health.pc \in {"Probe", "Wait"}
    /\ ~ctxDone
    /\ ctxDone' = TRUE
    /\ UNCHANGED <<healthOther, conn, health>>

(* stats.GetSystemStats(ctx, false): true at a nil error; otherwise the     *)
(* wait when retries are left, else the end of the loop and false           *)
HealthProbe ==
    /\ health.pc = "Probe"
    /\ \E ok \in BOOLEAN :
         LET retriesLeft == maxRetries - health.attempt
             issued == [health EXCEPT !.probes = Append(@, ok)]
         IN  health' = IF ok THEN [issued EXCEPT !.pc = "Ret", !.result = TRUE]
                       ELSE IF retriesLeft > 0 THEN [issued EXCEPT !.pc = "Wait"]
                       ELSE [issued EXCEPT !.pc = "Ret", !.result = FALSE]
    /\ UNCHANGED <<healthOther, conn, ctxDone>>

(* a wait that goes on to the next attempt whatever the context says *)
HealthWaitIgnoresDone ==
    /\ health.pc = "Wait"
    /\ health' = [health EXCEPT !.pc = "Probe", !.attempt = @ + 1]
    /\ UNCHANGED <<healthOther, conn, ctxDone>>

(* the select of the wait: ctx.Done() returns false; time.After goes on to  *)
(* the next attempt. The timer is not ready when the context has fired      *)
(* before it.                                                               *)
HealthWait ==
    /\ health.pc = "Wait"
    /\ health' = IF ctxDone
                 THEN [health EXCEPT !.pc = "Ret", !.cancelled = TRUE, !.result = FALSE]
                 ELSE [health EXCEPT !.pc = "Probe", !.attempt = @ + 1]
    /\ UNCHANGED <<healthOther, conn, ctxDone>>

(* the caller has the result *)
HealthReturn ==
    /\ health.pc = "Ret"
    /\ health' = [health EXCEPT !.pc = "idle"]
    /\ UNCHANGED <<healthOther, conn, ctxDone>>

NextHealth ==
    \/ ClientConnect
    \/ ClientClose
    \/ \E site \in HealthSites : checkXrayHealthBegin(site)
    \/ CtxCancel
    \/ HealthProbe
    \/ HealthWait
    \/ HealthReturn

(* a health check in progress goes on: its probes return and its timer fires *)
FairHealth == WF_vars(HealthProbe \/ HealthWait \/ HealthReturn)
SpecHealth == Init /\ [][NextHealth]_vars /\ FairHealth

(* ------------------------- calls under fairness ----------------------- *)
(* Fairness of the Go runtime: a goroutine that can step does step (weak    *)
(* fairness of the steps of a call in progress), and a goroutine waiting    *)
(* for a sync.Mutex gets it when it is released again and again (strong     *)
(* fairness of the lock steps; sync.Mutex hands the lock to a waiter that   *)
(* has starved). No caller is obliged to call: the steps that begin a call  *)
(* carry no fairness. The three services share no lock, so each has its     *)
(* own specification.                                                       *)
UserLockSteps(h) ==
    \/ AddUserRemoveLock(h) \/ AddUserAddLock(h) \/ AddUsersRemoveLock(h)
    \/ AddUsersAddLock(h) \/ RemoveUserLock(h) \/ RemoveUsersLock(h)
UserSteps(h) ==
    \/ AddUserTrack(h) \/ AddUserSnapshot(h) \/ AddUserRemoveBody(h) \/ AddUserAddBody(h)
    \/ AddUsersTrack(h) \/ AddUsersSnapshot(h) \/ AddUsersRemoveBody(h)
    \/ AddUsersAddBody(h) \/ RemoveUserSnapshot(h) \/ RemoveUserBody(h)
    \/ RemoveUsersSnapshot(h) \/ RemoveUsersBody(h) \/ HandlerReturn(h)
FairUsers == \A h \in HProcs : WF_vars(UserSteps(h)) /\ SF_vars(UserLockSteps(h))

(* the adding calls of one caller next to the removing calls of another *)
NextUsersLive ==
    \/ InstanceStart
    \/ AddUserCall(1, PairAddUserRequest("A"))
    \/ AddUsersCall(1, ConcAddUsersRequest)
    \/ RemoveUserCall(2, ConcRemoveUserRequest)
    \/ RemoveUsersCall(2, ConcRemoveUsersRequest)
    \/ HandlerReturn(1)
    \/ HandlerReturn(2)

SpecUsersLive == Init /\ [][NextUsersLive]_vars /\ FairUsers

LifecycleLockSteps(p) == StartLock(p) \/ RestartLock(p)
LifecycleSteps(p) ==
    \/ StartDecide(p) \/ StartWrite(p) \/ StartExtract(p) \/ StartProcess(p)
    \/ StartVerify(p) \/ StartUnlock(p) \/ StartRelease(p)
    \/ StopProcess(p) \/ StopCleanup(p) \/ StopUnlock(p)
    \/ RestartDecide(p) \/ RestartWrite(p) \/ RestartExtract(p) \/ RestartProcess(p)
    \/ RestartVerify(p) \/ RestartUnlock(p) \/ RestartRelease(p)
FairLifecycle ==
    \A p \in Procs : WF_vars(LifecycleSteps(p)) /\ SF_vars(LifecycleLockSteps(p))

(* Start and Restart calls of one caller next to the Stop calls of another *)
LiveStartRequest == {r \in UsersStartRequest : r.hashes.inbounds = <<Item("A", "h1")>>}
LiveRestartRequest == {r \in RestartRequest : ~r.hashes.present /\ ~r.forceRestart}
NextLifecycleLive ==
    \/ StartCall(1, LiveStartRequest)
    \/ RestartCall(1, LiveRestartRequest)
    \/ StopCall(2)

SpecLifecycleLive == Init /\ [][NextLifecycleLive]_vars /\ FairLifecycle

VisionSteps(v) == BlockIP(v) \/ UnblockIP(v) \/ VisionUnlock(v) \/ VisionReturn(v)
FairVision == \A v \in VProcs : WF_vars(VisionSteps(v)) /\ SF_vars(VisionLock(v))

SpecVisionLive == Init /\ [][NextVision]_vars /\ FairVision

(* ============================== properties ============================ *)
StartPcs == {"StartLock", "StartDecide", "StartWrite", "StartExtract", "StartProcess",
             "StartVerify", "StartRet", "StartRelease"}
RestartPcs == {"RestartLock", "RestartDecide", "RestartWrite", "RestartExtract",
               "RestartProcess", "RestartVerify", "RestartRet", "RestartRelease"}
(* a Start or Restart body: from the guard's acquisition to its release *)
InBody(p) == pc[p] \in StartPcs \cup RestartPcs
Has(p, e) == \E i \in 1..Len(log[p]) : log[p][i] = e

(* a Start or Restart call by p arrives in this step *)
Arrives(p) ==
    /\ pc[p] = "idle"
    /\ result'[p].op \in {"Start", "Restart"}
    /\ pc'[p] # "idle" \/ result'[p] # result[p]

AtMostOneBody == Cardinality({p \in Procs : InBody(p)}) <= 1

RejectedAtOnce ==
    \A p \in Procs :
        (Arrives(p) /\ \E q \in Procs \ {p} : InBody(q)) =>
            /\ result'[p].kind = "inProgress"
            /\ pc'[p] = "idle"
            /\ log'[p] = log[p]
            /\ UNCHANGED <<xrayVars, internalVars>>

(* C1: at most one Start or Restart body executes at a time, and a Start or  *)
(* Restart call that arrives while another body executes is answered         *)
(* "already in progress" in that same step: it does not wait for the state   *)
(* lock, changes nothing and invokes nothing.                                *)
C1_SingleFlight == []AtMostOneBody /\ [][RejectedAtOnce]_vars

(* a call was rejected while another caller's body holds the state lock *)
C1_Witness ==
    \E p, q \in Procs :
        /\ p # q
        /\ pc[p] = "idle" /\ result[p].kind = "inProgress"
        /\ InBody(q) /\ mu = q /\ Has(q, "engineStart")

GuardHeldExactly == isStartProcessing <=> \E p \in Procs : InBody(p)

AdmittedWhenFree ==
    \A p \in Procs :
        (Arrives(p) /\ ~\E q \in Procs : InBody(q)) =>
            /\ result'[p].kind # "inProgress"
            /\ InBody(p)'

(* C2: the guard is set exactly while some Start or Restart body executes:   *)
(* every return path of the call that took it clears it, a rejected call     *)
(* leaves it alone, and a Start or Restart arriving when no body executes is *)
(* admitted.                                                                 *)
C2_GuardReleased == []GuardHeldExactly /\ [][AdmittedWhenFree]_vars

(* a call that ended in a hard error is about to release the guard, which a  *)
(* rejected call of another caller has left set                              *)
C2_Witness ==
    \E p, q \in Procs :
        /\ p # q
        /\ pc[p] = "StartRelease" /\ result[p].kind = "hardError"
        /\ isStartProcessing
        /\ result[q].kind = "inProgress"

(* the Start call of p has reached its return; it carries a manifest, and   *)
(* the same config and manifest as the Start before it, which was answered   *)
(* isStarted=true with no Stop or Restart since; its health probe, if it     *)
(* made one, succeeded                                                       *)
RepeatedStart(p) ==
    /\ pc[p] = "StartRet"
    /\ ~disableHashedSetCheck
    /\ req[p].hashes.present
    /\ Has(p, "repeat")
    /\ ~Has(p, "probeFail")

Skipped(p) == result[p].kind = "skipped" /\ ~Has(p, "engineStart")

(* the manifest is supplied, has an emptyConfig hash, and names each of its  *)
(* inbounds once, all of them inbounds of a config that parses               *)
WellFormed(config, hashes) ==
    /\ config.kind = "ok"
    /\ hashes.present
    /\ hashes.emptyConfig # ""
    /\ \A i, j \in 1..Len(hashes.inbounds) :
            hashes.inbounds[i].tag = hashes.inbounds[j].tag => i = j
    /\ \A i \in 1..Len(hashes.inbounds) :
            hashes.inbounds[i].tag \in DOMAIN config.inbounds \ {""}

(* C3 as stated: with hash-checking enabled and the engine healthy, a Start  *)
(* with the config and manifest of the preceding successful Start is skipped *)
(* and does not invoke the engine start.                                     *)
C3_Original == \A p \in Procs : RepeatedStart(p) => Skipped(p)

(* C3: with hash-checking enabled and the engine healthy, a Start without    *)
(* forceRestart that carries the config and the manifest of the preceding    *)
(* successful Start is skipped and does not invoke the engine start,         *)
(* provided the manifest is well formed for the config.                      *)
C3_RepeatedStartSkipped ==
    \A p \in Procs :
        (/\ RepeatedStart(p)
         /\ ~req[p].forceRestart
         /\ WellFormed(req[p].config, req[p].hashes)) => Skipped(p)

(* a repeated Start for two inbounds was skipped after a successful probe *)
C3_Witness ==
    \E p \in Procs :
        /\ RepeatedStart(p) /\ Has(p, "probeOk")
        /\ ~req[p].forceRestart
        /\ WellFormed(req[p].config, req[p].hashes)
        /\ Len(req[p].hashes.inbounds) = 2
        /\ Skipped(p)

TagsOf(hashes) == {hashes.inbounds[i].tag : i \in 1..Len(hashes.inbounds)}

(* the manifest differs from what the tracker stores: in the emptyConfig     *)
(* hash, in the set of inbound tags, or in the hash of a tracked inbound     *)
Differs(hashes) ==
    \/ hashes.emptyConfig # emptyConfigHash
    \/ TagsOf(hashes) # DOMAIN inboundHashSets
    \/ \E i \in 1..Len(hashes.inbounds) :
          /\ hashes.inbounds[i].tag \in DOMAIN inboundHashSets
          /\ hashes.inbounds[i].hash # inboundHashSets[hashes.inbounds[i].tag]

(* C4: IsNeedRestartCore answers true for every manifest that differs from   *)
(* the stored fingerprints in the emptyConfig hash, in the hash of an        *)
(* inbound, or in the set of inbound tags.                                   *)
C4_Sensitive == \A h \in InboundHashes : Differs(h) => IsNeedRestartCore(h)

(* two inbounds are tracked with their hashes, hash-checking is enabled, and *)
(* manifests that differ from the stored state in exactly one respect (one   *)
(* inbound's hash, the emptyConfig hash, one inbound removed) need a restart *)
(* while the manifest that agrees with it does not                           *)
C4_Witness ==
    /\ ~disableHashedSetCheck
    /\ emptyConfigHash = "e1"
    /\ inboundHashSets = [t \in {"A", "B"} |-> "h1"]
    /\ ~IsNeedRestartCore(Hashes("e1", <<Item("A", "h1"), Item("B", "h1")>>))
    /\ IsNeedRestartCore(Hashes("e1", <<Item("A", "h1"), Item("B", "h2")>>))
    /\ IsNeedRestartCore(Hashes("e2", <<Item("A", "h1"), Item("B", "h1")>>))
    /\ IsNeedRestartCore(Hashes("e1", <<Item("A", "h1")>>))

C6_NeverSkipped ==
    \A p \in Procs :
        (/\ pc[p] = "StartRet"
         /\ \/ req[p].forceRestart
            \/ ~req[p].hashes.present
            \/ disableHashedSetCheck) =>
            /\ result[p].kind # "skipped"
            /\ Has(p, "engineStart") \/ result[p].kind = "hardError"

(* with hash-checking disabled, a Start that repeats the manifest the        *)
(* tracker stores has run the engine start                                   *)
C6_Witness ==
    \E p \in Procs :
        /\ pc[p] = "StartRet"
        /\ disableHashedSetCheck
        /\ Has(p, "repeat")
        /\ ~req[p].forceRestart /\ req[p].hashes.present
        /\ Has(p, "engineStart")

(* C7: a skipped Start has written no config, rebuilt nothing and invoked no *)
(* engine operation; the controller is Running and the answer carries the    *)
(* cached version.                                                           *)
C7_SkipChangesNothing ==
    \A p \in Procs :
        (pc[p] = "StartRet" /\ result[p].kind = "skipped") =>
            /\ ~Has(p, "write") /\ ~Has(p, "rebuild") /\ ~Has(p, "engineStart")
            /\ isXrayOnline
            /\ result[p].version = cachedVersion

(* before the engine start of a Start call: the config write, then Rebuild *)
WriteRebuildStart(p) ==
    \E i, j, k \in 1..Len(log[p]) :
        /\ i < j /\ j < k
        /\ log[p][i] = "write" /\ log[p][j] = "rebuild" /\ log[p][k] = "engineStart"

StartOrder ==
    \A p \in Procs :
        (pc[p] \in StartPcs /\ Has(p, "engineStart")) => WriteRebuildStart(p)

(* a Start body turns isXrayOnline on only in the step that ends a           *)
(* successful health verification                                            *)
OnlineOnlyVerified ==
    \A p \in Procs :
        (pc[p] \in StartPcs /\ ~isXrayOnline /\ isXrayOnline') =>
            /\ pc[p] = "StartVerify"
            /\ log'[p] = Append(log[p], "verified")
            /\ result'[p].kind = "started"

(* C8: in a Start that invokes the engine start, the config was written and  *)
(* then the tracker rebuilt before that; the controller becomes Running only *)
(* once the post-start health verification has succeeded.                    *)
C8_Ordering == []StartOrder /\ [][OnlineOnlyVerified]_vars

(* a Start of a controller that was not running has gone through write,      *)
(* rebuild, engine start and verification                                    *)
C8_Witness ==
    \E p \in Procs :
        /\ pc[p] = "StartRet"
        /\ log[p] = <<"write", "rebuild", "engineStart", "verified">>
        /\ isXrayOnline

(* C9: when the engine start fails or the post-start verification fails,     *)
(* Start answers isStarted=false with an error, not a hard error, and the    *)
(* controller is not Running.                                                *)
C9_SoftFailure ==
    \A p \in Procs :
        (/\ pc[p] = "StartRet"
         /\ Has(p, "engineFailed") \/ Has(p, "verifyFailed")) =>
            /\ result[p].kind \in {"engineError", "healthError"}
            /\ ~isXrayOnline

(* the verification failed in a forced restart of a controller that had been *)
(* started before                                                            *)
C9_Witness ==
    \E p \in Procs :
        /\ pc[p] = "StartRet"
        /\ Has(p, "verifyFailed")
        /\ req[p].forceRestart /\ isConfigured
        /\ result[p].kind = "healthError"

TrackerEmpty ==
    /\ xtlsConfigInbounds = {}
    /\ DOMAIN userInboundMap = {}
    /\ DOMAIN inboundHashSets = {}
    /\ emptyConfigHash = ""

(* C10: when Stop returns after a successful engine stop, the controller is  *)
(* Stopped and the tracker holds no inbound, no membership, no inbound hash  *)
(* and no emptyConfig hash.                                                  *)
C10_StopCleans ==
    \A p \in Procs :
        (pc[p] = "StopRet" /\ Has(p, "engineStop") /\ ~Has(p, "engineFailed")) =>
            /\ result[p].kind = "stopped"
            /\ ~isXrayOnline /\ ~isConfigured
            /\ TrackerEmpty

(* a Stop has returned after a Start had written a config with a manifest *)
C10_Witness ==
    \E p \in Procs :
        /\ pc[p] = "StopRet" /\ result[p].kind = "stopped"
        /\ configFile.kind = "ok"
        /\ TrackerEmpty

StopPcs == {"StopProcess", "StopCleanup", "StopRet"}
(* this step is a step of a Stop call of p *)
StopStep(p) ==
    /\ pc'[p] # pc[p]
    /\ pc[p] \in StopPcs \/ pc'[p] \in StopPcs

FailedStopReported ==
    \A p \in Procs :
        (pc[p] = "StopRet" /\ Has(p, "engineFailed")) =>
            /\ result[p].kind = "stopFailed"
            /\ ~Has(p, "cleanup")

FailedStopFrame ==
    \A p \in Procs :
        (StopStep(p) /\ pc[p] # "StopCleanup") =>
            UNCHANGED <<isXrayOnline, isConfigured, cachedVersion, configFile,
                        internalVars>>

(* C11: a Stop whose engine stop fails answers isStopped=false without        *)
(* running Cleanup, and no step of it (taking the lock, the failed engine     *)
(* stop, the return) changes the lifecycle state or the tracker.              *)
C11_StopFailureFrame == []FailedStopReported /\ [][FailedStopFrame]_vars

(* a Stop has failed on a running controller that tracks an inbound with a   *)
(* member and a stored manifest                                               *)
C11_Witness ==
    \E p \in Procs :
        /\ pc[p] = "StopRet" /\ result[p].kind = "stopFailed"
        /\ isXrayOnline /\ isConfigured
        /\ xtlsConfigInbounds # {} /\ DOMAIN userInboundMap # {}
        /\ emptyConfigHash # ""

(* C12: in every state in which the state lock is free, for every manifest,  *)
(* forceRestart value and outcome of the health check, a Restart called in   *)
(* that state skips exactly when a Start called in it would skip.            *)
C12_SameSkipDecision ==
    mu = 0 =>
        \A h \in ReqHashes, f \in BOOLEAN, healthy \in BOOLEAN :
            LET r == [hashes |-> h, forceRestart |-> f]
            IN  RestartSkips(r, healthy) <=> StartSkips(r, healthy)
(* C13: in every reachable state, under any interleaving of the lifecycle  *)
(* calls and the user calls, every tag in some identity's membership set is *)
(* in the tracked-inbound set                                               *)
C13_MembershipTracked ==
    \A k \in DOMAIN userInboundMap : userInboundMap[k] \subseteq xtlsConfigInbounds

(* C14: after AddUser calls executed one after the other for the same      *)
(* identity key with no prior key and with every engine add succeeding, the *)
(* membership set of the identity is exactly the set of target tags of the  *)
(* most recent call                                                         *)
C14_Attempted(h) ==
    /\ hpc[h] = "AddUserRet"
    /\ hreq[h].hashData.prevVlessUuid = ""
    /\ Len(hreq[h].data) > 0
    /\ local[h].successCount = Len(hreq[h].data)

C14_LatestTargets ==
    C14_Attempted(1) =>
        Membership(hreq[1].hashData.vlessUuid) = TargetTags(hreq[1].data)

(* AddUser for tag A, then AddUser for tag B, leaves {B} *)
C14_Witness ==
    /\ C14_Attempted(1)
    /\ local[1].before = {"A"}
    /\ TargetTags(hreq[1].data) = {"B"}
    /\ Membership(hreq[1].hashData.vlessUuid) = {"B"}

(* C15: an AddUser call with a prior identity key removes, for every        *)
(* tracked tag, the membership of the current key and of the prior key, so   *)
(* that afterwards neither key is a member of a tracked tag outside the      *)
(* targets the call added                                                    *)
C15_Added(h) ==
    {local[h].log[i][2] : i \in {j \in 1..Len(local[h].log) : local[h].log[j][1] = "added"}}

C15_BothKeysRemoved ==
    (/\ hpc[1] = "AddUserRet"
     /\ hresult[1].kind \in {"success", "failed"}
     /\ hreq[1].hashData.prevVlessUuid # "")
    => /\ (Membership(hreq[1].hashData.vlessUuid) \cap xtlsConfigInbounds)
              \subseteq C15_Added(1)
       /\ (Membership(hreq[1].hashData.prevVlessUuid) \cap xtlsConfigInbounds)
              \subseteq C15_Added(1)

(* C16: in every reachable state no membership entry has an empty tag set: *)
(* the removal of the last tag of an identity removes its entry             *)
C16_NoEmptyEntry ==
    \A k \in DOMAIN userInboundMap : userInboundMap[k] # {}

(* a RemoveUser call has removed the only tag of its identity *)
C16_Witness ==
    /\ hpc[1] = "RemoveUserRet"
    /\ Cardinality(local[1].before) = 1
    /\ local[1].before \subseteq local[1].allTags
    /\ hreq[1].vlessUuid \notin DOMAIN userInboundMap

(* C17: AddUser answers success exactly when the engine add succeeded for  *)
(* at least one target; it answers failure only when no target succeeded,   *)
(* and the failure of one target does not stop the later targets from being *)
(* attempted                                                                *)
C17_Adds(h) == SelectSeq(local[h].log, LAMBDA e : e[1] \notin {"remove", "removeIgnored"})

C17_SuccessIffOneAdded ==
    hpc[1] = "AddUserRet" =>
        /\ hresult[1].kind = "success"
              <=> \E i \in 1..Len(C17_Adds(1)) : C17_Adds(1)[i][1] = "added"
        /\ hresult[1].kind \in {"success", "failed"}
              => /\ Len(C17_Adds(1)) = Len(hreq[1].data)
                 /\ \A i \in 1..Len(hreq[1].data) :
                       C17_Adds(1)[i][2] = hreq[1].data[i].tag

(* the first target failed, the second was attempted and added: success *)
C17_Witness ==
    /\ hpc[1] = "AddUserRet"
    /\ hresult[1].kind = "success"
    /\ C17_Adds(1) = <<(<<"failed", "A">>), (<<"added", "B">>)>>

(* C18: RemoveUser and RemoveUsers call the engine removal for every       *)
(* tracked tag, for every user of the request, and answer failure only if   *)
(* every one of these removals failed; one removal that succeeded makes the *)
(* answer a success                                                         *)
C18_Removed(h, ok) ==
    {i \in 1..Len(local[h].log) :
        local[h].log[i][1] = (IF ok THEN "removed" ELSE "removeFailed")}

C18_Users(h) == IF hreq[h].op = "RemoveUsers" THEN Len(hreq[h].users) ELSE 1

C18_FailureOnlyIfAllFailed ==
    hpc[1] \in {"RemoveUserRet", "RemoveUsersRet"} =>
        /\ hresult[1].kind \in {"success", "failed"} =>
              /\ Len(local[1].log) = C18_Users(1) * Cardinality(local[1].allTags)
              /\ \A u \in 1..C18_Users(1) :
                    {local[1].log[i][2] :
                        i \in ((u - 1) * Cardinality(local[1].allTags) + 1)
                                 .. (u * Cardinality(local[1].allTags))}
                      = local[1].allTags
        /\ hresult[1].kind = "failed" =>
              C18_Removed(1, TRUE) = {} /\ C18_Removed(1, FALSE) # {}
        /\ C18_Removed(1, TRUE) # {} => hresult[1].kind = "success"

(* a batch removal in which one engine removal failed and another succeeded *)
C18_Witness ==
    /\ hpc[1] = "RemoveUsersRet"
    /\ hresult[1].kind = "success"
    /\ C18_Removed(1, TRUE) # {}
    /\ C18_Removed(1, FALSE) # {}

(* C19: RemoveUser for an identity that was never added, a member of no    *)
(* tag, answers success and changes neither the tracked-inbound set nor any *)
(* membership entry, whatever tags are tracked                              *)
C19_NeverAdded(h) ==
    /\ hreq[h].op = "RemoveUser"
    /\ hresult[h].kind \in {"pending", "success", "failed"}
    /\ local[h].before = {}

C19_NoOpSuccess ==
    /\ C19_NeverAdded(1) /\ hpc[1] = "RemoveUserRet" => hresult[1].kind = "success"
    /\ C19_NeverAdded(1) /\ hpc[1] # "RemoveUserSnapshot" =>
          hreq[1].vlessUuid \notin DOMAIN userInboundMap

(* C20: AddUsers, once it has attempted the batch with the engine running, *)
(* answers success unconditionally, even when the engine add failed for     *)
(* every identity and every tag                                             *)
C20_BatchAlwaysSuccess ==
    hpc[1] = "AddUsersRet" /\ hresult[1].kind # "notRunning" =>
        hresult[1].kind = "success"

(* every engine add of the batch failed, and the answer is success *)
C20_Witness ==
    /\ hpc[1] = "AddUsersRet"
    /\ hresult[1].kind = "success"
    /\ \E i \in 1..Len(local[1].log) : local[1].log[i][1] = "failed"
    /\ \A i \in 1..Len(local[1].log) : local[1].log[i][1] # "added"

(* C21: UserCount(tag) is the number of distinct identities added to the    *)
(* tag: after AddUser and RemoveUser calls whose engine operations all       *)
(* succeeded it is the number added to the tag minus the number removed,     *)
(* that is, the number of users the engine holds on the tag                  *)
C21_Succeeded(h) ==
    /\ hpc[h] \in {"AddUserRet", "RemoveUserRet"}
    /\ hresult[h].kind = "success"
    /\ local[h].agreed
    /\ \A i \in 1..Len(local[h].log) :
          local[h].log[i][1] \in {"remove", "added", "removed"}

C21_CountIsAddedMinusRemoved ==
    C21_Succeeded(1) =>
        \A t \in Tags : GetUsersCountInInbound(t) = Cardinality(engineUsers[t])

(* C22: every core operation reports a soft failure, in particular an       *)
(* engine that does not run or does not answer, as a result value and never  *)
(* as a hard error: no user call ends in a hard error                        *)
C22_SoftFailureIsResult ==
    hpc[1] \in RetPcs => hresult[1].kind # "hardError"

(* C23: when the write of the config file fails, Start returns a hard      *)
(* error, the call has neither started the engine nor rebuilt the tracker, *)
(* and the step that ends the call clears isStartProcessing                *)
C23_WriteFailed(p) == result[p].op = "Start" /\ result[p].kind = "hardError"
C23_NothingDone ==
    \A p \in Procs :
        C23_WriteFailed(p) =>
            /\ ~Has(p, "write") /\ ~Has(p, "rebuild") /\ ~Has(p, "engineStart")
            /\ pc[p] \in {"StartRet", "StartRelease"}
C23_Released ==
    \A p \in Procs :
        (C23_WriteFailed(p) /\ pc'[p] = "idle") => ~isStartProcessing'
C23_WriteFailureIsHardError == []C23_NothingDone /\ [][C23_Released]_vars
C23_Witness == \E p \in Procs : C23_WriteFailed(p) /\ pc[p] = "StartRelease"


(* C24: a BlockIP call for an IP that is already recorded, whether it comes *)
(* after or next to the call that recorded it, makes no router call,       *)
(* answers success and changes nothing; so does an UnblockIP call for an   *)
(* IP that is not recorded                                                 *)
C24_NoOp(v) ==
    /\ vlocal'[v].calls = <<>>
    /\ vresult'[v].success
    /\ blockedIPs' = blockedIPs
    /\ routerRules' = routerRules
C24_Step ==
    \A v \in VProcs :
        /\ (/\ vpc[v] = "BlockIP" /\ vpc'[v] = "VisionUnlock"
            /\ vreq[v].ip \in DOMAIN blockedIPs) => C24_NoOp(v)
        /\ (/\ vpc[v] = "UnblockIP" /\ vpc'[v] = "VisionUnlock"
            /\ vreq[v].ip \notin DOMAIN blockedIPs) => C24_NoOp(v)
C24_BlockIdempotent == [][C24_Step]_vars
(* two BlockIP calls for one IP in flight together: one recorded it, the   *)
(* other found it recorded                                                 *)
C24_Witness ==
    \E v, w \in VProcs :
        /\ v # w
        /\ vreq[v].op = "BlockIP" /\ vreq[w] = vreq[v]
        /\ vpc[v] = "VisionRet" /\ vpc[w] = "VisionRet"
        /\ vresult[v].success /\ ~vlocal[v].exists
        /\ vresult[w].success /\ vlocal[w].exists /\ vlocal[w].calls = <<>>

(* C25: every recorded IP has its rule installed in the engine's router *)
C25_RecordedHasRule == \A ip \in DOMAIN blockedIPs : blockedIPs[ip] \in routerRules

(* C26, as stated: HasChanged returns true when the key is missing;       *)
(* UpdateIfChanged returns true exactly when HasChanged was true just      *)
(* before it, and HasChanged is false for the same key and value after it  *)
C26_UpdateAgrees ==
    hsCall.op = "UpdateIfChanged" =>
        /\ hsCall.ret = hsCall.before
        /\ ~HasChanged(hsCall.key, hsCall.data).ret
C27_Lacks(f) ==
    /\ secretKey.kind = "base64" /\ secretKey.bytes.kind = "json"
    /\ \/ secretKey.bytes.object[f].form \in {"absent", "null"}
       \/ secretKey.bytes.object[f] = [form |-> "string", value |-> ""]
C27_Rejected ==
    \/ secretKey.kind = "notBase64"
    \/ secretKey.kind = "base64" /\ secretKey.bytes = NotJson
    \/ \E f \in Fields : C27_Lacks(f)
C27_ParseNodePayload ==
    /\ C27_Rejected => payload.err \notin {"", "none"}
    /\ \A p \in NodePayloads :
          (/\ \A f \in Fields : p[f] # ""
           /\ secretKey = EncodeToString(MarshalPayload(p)))
             => payload = [err |-> "", payload |-> p]
(* the encoding of a payload with four fields, not all equal, was parsed *)
C27_Witness ==
    /\ payload.err = ""
    /\ payload.payload["caCertPem"] # payload.payload["jwtPublicKey"]
    /\ secretKey = EncodeToString(MarshalPayload(payload.payload))

(* C28: whenever Start answers started=true, by a full start or by a      *)
(* skip, the controller holds the engine to be online at that moment       *)
C28_StartedMeansOnline ==
    \A p \in Procs :
        (/\ pc[p] = "StartRet" /\ result[p].op = "Start"
         /\ result[p].kind \in {"started", "skipped"}) => isXrayOnline

(* C29: with the engine running and no user call in flight, the tracker   *)
(* holds for every tracked tag the users the engine holds on that inbound  *)
C29_TrackerAgreesWithEngine ==
    (running /\ hpc[1] = "idle") =>
        \A t \in xtlsConfigInbounds : GetUsersInInbound(t) = engineUsers[t]

(* C30: when two AddUser calls for one identity with different target     *)
(* tags have both answered success, the identity's membership set is the   *)
(* target set of one of them                                               *)
C30_BothAnswered ==
    /\ hpc[1] = "AddUserRet" /\ hpc[2] = "AddUserRet"
    /\ hresult[1].kind = "success" /\ hresult[2].kind = "success"
    /\ hreq[1].hashData = hreq[2].hashData
    /\ TargetTags(hreq[1].data) # TargetTags(hreq[2].data)
C30_OneTargetSet ==
    C30_BothAnswered =>
        Membership(hreq[1].hashData.vlessUuid)
            \in {TargetTags(hreq[1].data), TargetTags(hreq[2].data)}

(* C31: right after ExtractUsersFromConfig has rebuilt the tracker from a  *)
(* config that parses and a manifest, every tracked tag is a tag of the    *)
(* manifest, every membership is one the config gives under a tracked tag, *)
(* the stored emptyConfig hash is the manifest's, and the hash stored for  *)
(* a tracked tag is a hash the manifest gives for that tag                 *)
C31_Rebuilt(p) ==
    /\ pc[p] \in {"StartProcess", "RestartProcess"}
    /\ req[p].hashes.present
    /\ req[p].config.kind = "ok"
C31_RebuildFromManifest ==
    \A p \in Procs :
        C31_Rebuilt(p) =>
            LET m == req[p].hashes
                c == req[p].config
            IN  /\ xtlsConfigInbounds \subseteq TagsOf(m)
                /\ DOMAIN inboundHashSets = xtlsConfigInbounds
                /\ \A e \in DOMAIN userInboundMap : \A t \in userInboundMap[e] :
                        /\ t \in xtlsConfigInbounds
                        /\ t \in DOMAIN c.inbounds
                        /\ e \in c.inbounds[t]
                /\ emptyConfigHash = m.emptyConfig
                /\ \A t \in xtlsConfigInbounds :
                        \E i \in 1..Len(m.inbounds) :
                            m.inbounds[i] = Item(t, inboundHashSets[t])
(* a rebuild whose manifest leaves out an inbound of the config, with a  *)
(* member under the inbound it names                                       *)
C31_Witness ==
    \E p \in Procs :
        /\ C31_Rebuilt(p)
        /\ DOMAIN req[p].config.inbounds \ TagsOf(req[p].hashes) # {}
        /\ xtlsConfigInbounds # {}
        /\ DOMAIN userInboundMap # {}

(* C32: on a cold controller and when a Stop returns after a successful   *)
(* engine stop, IsNeedRestartCore answers true for every manifest; the     *)
(* emptyConfig hash stays empty until the rebuild of a Start or Restart,   *)
(* and a Start that decides while it is empty is never skipped             *)
C32_AllNeedRestart == \A m \in InboundHashes : IsNeedRestartCore(m)
C32_Stopped ==
    \A p \in Procs :
        (pc[p] = "StopRet" /\ result[p].kind = "stopped") => C32_AllNeedRestart
C32_Step ==
    /\ (emptyConfigHash = "" /\ emptyConfigHash' # "") =>
            \E p \in Procs : /\ pc[p] \in {"StartExtract", "RestartExtract"}
                             /\ pc'[p] # pc[p]
    /\ \A p \in Procs :
            (pc[p] = "StartDecide" /\ emptyConfigHash = "") =>
                result'[p].kind # "skipped"
C32_ColdOrStoppedStartsFully == C32_AllNeedRestart /\ []C32_Stopped /\ [][C32_Step]_vars
(* after a successful Start and a successful Stop, a Start with the config *)
(* on disk and a well-formed manifest has decided for the full start       *)
C32_Witness ==
    \E p \in Procs :
        /\ pc[p] = "StartWrite"
        /\ ~isConfigured /\ cachedVersion # "" /\ emptyConfigHash = ""
        /\ ~disableHashedSetCheck /\ ~req[p].forceRestart
        /\ WellFormed(req[p].config, req[p].hashes)
        /\ configFile = generateApiConfig(req[p].config)

(* C33: right after ExtractUsersFromConfig has rebuilt the tracker        *)
(* without a manifest, IsNeedRestartCore answers true for every manifest   *)
C33_RebuiltWithoutManifest(p) ==
    /\ pc[p] \in {"StartProcess", "RestartProcess"}
    /\ ~req[p].hashes.present
    /\ req[p].config.kind = "ok"
C33_NoManifestNeedsRestart ==
    \A p \in Procs :
        C33_RebuiltWithoutManifest(p) => \A m \in InboundHashes : IsNeedRestartCore(m)

(* C34: no step of an AddUser, AddUsers, RemoveUser or RemoveUsers call    *)
(* changes the emptyConfig hash or the per-inbound hashes, and             *)
(* IsNeedRestartCore answers the same for every manifest before and after  *)
(* the step                                                                *)
C34_UserStep == handlerVars' # handlerVars
C34_Frame ==
    C34_UserStep =>
        /\ emptyConfigHash' = emptyConfigHash
        /\ inboundHashSets' = inboundHashSets
        /\ \A m \in ReqHashes : IsNeedRestartCore(m)' = IsNeedRestartCore(m)
C34_UserCallsKeepDecision == [][C34_Frame]_vars
(* an AddUser call has tracked a tag that no Start had tracked, while the  *)
(* tracker stores a manifest that needs no restart                         *)
C34_Witness ==
    /\ hpc[1] = "AddUserRet"
    /\ ~disableHashedSetCheck
    /\ xtlsConfigInbounds \ DOMAIN inboundHashSets # {}
    /\ \E m \in ReqHashes : ~IsNeedRestartCore(m)

(* C35: the engine stop and the Cleanup of a Stop run with the state lock *)
(* held by that Stop, and never while a Start or Restart body is between   *)
(* taking the state lock and returning                                     *)
C35_Locked == {"StartDecide", "StartWrite", "StartExtract", "StartProcess",
               "StartVerify", "StartRet", "RestartDecide", "RestartWrite",
               "RestartExtract", "RestartProcess", "RestartVerify", "RestartRet"}
C35_StopSerialized ==
    \A p \in Procs :
        pc[p] \in StopPcs =>
            /\ mu = p
            /\ \A q \in Procs : pc[q] \notin C35_Locked
(* a Stop is about to run Cleanup while a Start that passed the guard       *)
(* waits for the state lock                                                 *)
C35_Witness ==
    \E p, q \in Procs :
        /\ pc[p] = "StopCleanup" /\ pc[q] = "StartLock"
        /\ isXrayOnline /\ emptyConfigHash # ""


(* C36: the registry never makes two lock objects for one tag: all callers  *)
(* of getInboundLock(tag) get the same object, so two callers working on    *)
(* the same tag never hold its lock together                                *)
C36_Returned(g) == gpc[g] \in {"Lock", "Held"}
C36_OneLockPerTag ==
    /\ \A t \in Tags : Cardinality(created[t]) <= 1
    /\ \A g1, g2 \in GProcs :
          (C36_Returned(g1) /\ C36_Returned(g2) /\ glocal[g1].tag = glocal[g2].tag)
             => glocal[g1].lock = glocal[g2].lock
    /\ \A g1, g2 \in GProcs :
          (g1 # g2 /\ gpc[g1] = "Held" /\ gpc[g2] = "Held")
             => glocal[g1].tag # glocal[g2].tag
C36_Witness ==
    \E g1, g2, g3 \in GProcs :
       /\ gpc[g1] = "Held" /\ gpc[g2] = "Lock" /\ gpc[g3] = "Recheck"
       /\ glocal[g1].tag = glocal[g2].tag /\ glocal[g2].tag = glocal[g3].tag
       /\ ~glocal[g2].exists

(* C37: a user call holds at most one per-tag lock at a time, holds one     *)
(* only while it works on that tag, takes it in a step that is no tracker   *)
(* call, and holds none when it returns, whatever the type of the items     *)
(* and whatever the engine answered                                        *)
C37_HeldBy(h) == {t \in DOMAIN inboundLocks : inboundLocks[t] = h}
C37_UnderLock == {"AddUserRemoveBody", "AddUserAddBody", "AddUsersRemoveBody",
                  "AddUsersAddBody", "RemoveUserBody", "RemoveUsersBody"}
C37_OneLock ==
    \A h \in HProcs :
       /\ Cardinality(C37_HeldBy(h)) <= 1
       /\ hpc[h] \notin C37_UnderLock => C37_HeldBy(h) = {}
C37_Acquire ==
    \A h \in HProcs :
       C37_HeldBy(h)' \ C37_HeldBy(h) # {}
          => /\ C37_HeldBy(h) = {}
             /\ UNCHANGED internalVars
C37_LockDiscipline == []C37_OneLock /\ [][C37_Acquire]_vars
C37_Witness ==
    /\ hpc[1] = "AddUserRet"
    /\ \E i, j \in 1..Len(local[1].log) :
          /\ local[1].log[i][1] = "skipped"
          /\ local[1].log[j][1] = "failed"
          /\ local[1].log[i][2] # local[1].log[j][2]
    /\ xtlsConfigInbounds = Tags
(* the part of C37 on the registry lock: a caller that takes or holds a     *)
(* per-tag lock holds inboundMu neither as a reader nor as the writer       *)
C37_RegistryReleased ==
    \A g \in GProcs :
       gpc[g] \in {"Lock", "Held"} => g \notin inboundMu.readers /\ inboundMu.writer # g


C38_LifecycleCallsReturn ==
    /\ \A p \in Procs : (pc[p] # "idle") ~> (pc[p] = "idle")
    /\ (mu # 0) ~> (mu = 0)
(* the same for the BlockIP and UnblockIP calls *)
C38_VisionCallsReturn ==
    /\ \A v \in VProcs : (vpc[v] # "idle") ~> (vpc[v] = "idle")
    /\ (visionMu # 0) ~> (visionMu = 0)


(* C39: the health check ends; it issues at most maxRetries probes, every   *)
(* probe before the last one failed, it returns true exactly when its last  *)
(* probe succeeded, it returns false with all maxRetries probes failed      *)
(* unless Stats() was nil or the context fired, and once the context has    *)
(* fired the wait ends the call with false and no further probe             *)
C39_Last == health.probes[Len(health.probes)]
C39_Probes ==
    /\ Len(health.probes) <= maxRetries
    /\ \A i \in 1..(Len(health.probes) - 1) : ~health.probes[i]
    /\ health.pc \in {"Ret", "idle"} /\ health.result
          => Len(health.probes) > 0 /\ C39_Last
    /\ health.pc = "Ret" /\ ~health.result
          => \/ health.probes = <<>> /\ health.stats = "nil"
             \/ health.cancelled /\ ctxDone /\ Len(health.probes) < maxRetries
                   /\ \A i \in 1..Len(health.probes) : ~health.probes[i]
             \/ Len(health.probes) = maxRetries /\ ~C39_Last
    /\ health.pc = "Ret" /\ Len(health.probes) > 0 /\ C39_Last => health.result
C39_CancelledWait ==
    (health.pc = "Wait" /\ ctxDone /\ health' # health)
       => /\ health'.pc = "Ret"
          /\ ~health'.result
          /\ health'.probes = health.probes
C39_HealthCheckEnds ==
    /\ []C39_Probes
    /\ [][C39_CancelledWait]_vars
    /\ (health.pc # "idle") ~> (health.pc = "idle")
C39_Witness ==
    /\ health.pc = "Ret"
    /\ health.cancelled
    /\ ~health.result
    /\ Len(health.probes) = 3
C39_WitnessAllFailed ==
    /\ health.pc = "Ret"
    /\ ~health.cancelled
    /\ Len(health.probes) = maxRetries
    /\ ~health.result


============================================================================
